---- MODULE Spec2Model ----
(***************************************************************************)
(* Model of src/app.py (Geocoucou): the folder tree and its cascading      *)
(* selection (TreeBuilder), the GPX aggregation (GPXProcessor) and the     *)
(* Streamlit session that drives them (GPXApp.run_streamlit_ui).           *)
(*                                                                         *)
(* Paths are sequences of path segments: os.path.join appends a segment,   *)
(* os.path.dirname drops the last one, os.path.basename is the last one.   *)
(* The disk is a fixed directory listing; which GPX files are corrupt is   *)
(* chosen in the initial state.                                            *)
(***************************************************************************)
EXTENDS Integers, Sequences, FiniteSets, TLC

VARIABLES
    broken,          \* the GPX files on which gpxpy.parse raises
    tree,            \* st.session_state["tree"]: <<>> while the key is absent, else <<dict>>
    selected,        \* st.session_state["selected"], a Python list of paths
    tracks_data,     \* st.session_state["tracks_data"]
    routes_data,     \* st.session_state["routes_data"]
    waypoints_data,  \* st.session_state["waypoints_data"]
    show_map,        \* st.session_state["show_map"]
    last_folder,     \* "last_folder" of the preference file (<<>>: no file)
    last,            \* the user action handled by the last script run, its input,
                     \* and whether `selected` held a path before it
    proc,            \* a GPXProcessor: its tracks, routes, waypoints
    call,            \* the last process_folders call made on proc
    points,          \* argument of calculate_elevation_gain
    gains,           \* results of calculate_elevation_gain on points and its pieces
    icon_call,       \* a waypoint and what extract_waypoint_icon returned for it
    emoji_call,      \* an icon, a name and what get_emoji_for_icon returned for them
    color_call,      \* inputs and results of get_folder_colors and get_gpx_colors
    profile_call,    \* a GPX file content and what calculate_elevation_profile_from_gpx returned
    map_call,        \* collections, a search and the map create_map built from them
    cli,             \* a run of GPXApp.run_cli: its arguments, return code and output
    render_call      \* a tree, checkbox values, two lists and what render_tree made of them

vars == <<broken, tree, selected, tracks_data, routes_data, waypoints_data,
          show_map, last_folder, last, proc, call, points, gains,
          icon_call, emoji_call, color_call, profile_call, map_call, cli, render_call>>

uiVars == <<tree, selected, tracks_data, routes_data, waypoints_data,
            show_map, last_folder, last>>

aggVars == <<proc, call>>

gainVars == <<points, gains>>

fnVars == <<icon_call, emoji_call, color_call, profile_call, map_call, cli, render_call>>

-----------------------------------------------------------------------------
(* Bounds *)

\* longest folder list handed to process_folders by a direct caller
MaxFolders == 2

\* longest point sequence handed to calculate_elevation_gain
MaxPts == 4

-----------------------------------------------------------------------------
(* Values *)

\* Python's None where a string is expected
None == "None"

-----------------------------------------------------------------------------
(* The disk *)

pR == <<"R">>

pA == <<"R", "A">>

pB == <<"R", "A", "B">>

pC == <<"R", "A", "B", "C">>

pE == <<"R", "A", "E">>

pX == <<"X">>

Dirs == {pR, pA, pB, pC, pE}

\* os.listdir, already sorted as sorted() sorts it (upper case before lower case)
listdir(p) ==
    CASE p = pR -> <<"A">>
      [] p = pA -> <<"B", "E", "a.gpx">>
      [] p = pB -> <<"C", "b.gpx">>
      [] p = pC -> <<>>
      [] p = pE -> <<"e.gpx", "m.gpx", "notes.txt", "z.GPX">>
      [] OTHER -> <<>>

join(p, name) == Append(p, name)

dirname(p) == SubSeq(p, 1, Len(p) - 1)

basename(p) == p[Len(p)]

\* os.path.exists in place of os.path.isdir: a file passes too
isdir_exists(p) == p \in Dirs \/ (Len(p) > 1 /\ p[Len(p)] \in {"a.gpx", "b.gpx"})

isdir(p) == p \in Dirs

\* f.lower().endswith(".gpx") on the names of the disk
is_gpx_name(name) == name \in {"a.gpx", "b.gpx", "e.gpx", "m.gpx", "z.GPX"}

\* str.lower() on the path segments of the disk
lower(name) ==
    CASE name = "R" -> "r"
      [] name = "A" -> "a"
      [] name = "B" -> "b"
      [] name = "C" -> "c"
      [] name = "E" -> "e"
      [] name = "z.GPX" -> "z.gpx"
      [] OTHER -> name

fa == join(pA, "a.gpx")

fb == join(pB, "b.gpx")

fe == join(pE, "e.gpx")

fm == join(pE, "m.gpx")

fz == join(pE, "z.GPX")

GpxFiles == {fa, fm, fz, fb, fe}

\* the files that may be corrupt
Corruptible == {fm, fb}

\* a GPX point; elevation is <<e>> when known and <<>> when it is None
Pt(e) == [elevation |-> <<e>>]

PtNoEle == [elevation |-> <<>>]

\* a track point with its position, in metres along a straight line; ele is <<e>>
\* or <<>>
PtAt(ele, x) == [elevation |-> ele, x |-> x]

\* what gpxpy.parse returns on each file when it does not raise
Content(f) ==
    CASE f = fa ->
           [tracks |-> << [segments |-> << <<PtAt(<<100>>, 0), PtAt(<<150>>, 120),
                                              PtAt(<<120>>, 160)>> >>] >>,
            routes |-> <<>>,
            waypoints |-> <<>>]
      [] f = fm ->
           [tracks |-> << [segments |-> << <<PtAt(<<10>>, 0), PtAt(<<>>, 30), PtAt(<<30>>, 70)>>,
                                            <<>>,
                                            <<PtAt(<<30>>, 70), PtAt(<<45>>, 78)>> >>] >>,
            routes |-> << [points |-> <<Pt(5), Pt(9)>>], [points |-> <<>>] >>,
            waypoints |-> <<>>]
      [] f = fz ->
           [tracks |-> <<>>,
            routes |-> << [points |-> <<Pt(7)>>] >>,
            waypoints |-> << [name |-> None, symbol |-> " Flag ", extensions |-> <<>>] >>]
      [] f = fb ->
           [tracks |-> <<>>,
            routes |-> <<>>,
            waypoints |-> << [name |-> "Louvre", symbol |-> None,
                              extensions |-> << [tag |-> "osmand:icon", text |-> "museum"] >>] >>]
      [] f = fe ->
           [tracks |-> <<>>,
            routes |-> <<>>,
            waypoints |-> << [name |-> "", symbol |-> None,
                              extensions |-> << [tag |-> "sym", text |-> None] >>] >>]
      [] OTHER -> [tracks |-> <<>>, routes |-> <<>>, waypoints |-> <<>>]

\* open(file_path) followed by gpxpy.parse(f): the document, or an exception
parse(f) ==
    IF f \in broken THEN [ok |-> FALSE, gpx |-> Content(<<>>)]
    ELSE [ok |-> TRUE, gpx |-> Content(f)]

-----------------------------------------------------------------------------
(* Python list helpers *)

In(x, list) == \E i \in 1..Len(list) : list[i] = x

RECURSIVE Remove(_, _)
\* list.remove(x): drops the first occurrence
Remove(list, x) ==
    IF list = <<>> THEN <<>>
    ELSE IF Head(list) = x THEN Tail(list)
    ELSE <<Head(list)>> \o Remove(Tail(list), x)

RECURSIVE Flatten(_)
\* concatenation of a sequence of lists
Flatten(ss) == IF ss = <<>> THEN <<>> ELSE Head(ss) \o Flatten(Tail(ss))

-----------------------------------------------------------------------------
(* TreeBuilder *)

RECURSIVE build_tree(_)
\* the dict {"name", "path", "children"} of root_dir; only directories are nodes
build_tree(root_dir) ==
    LET entries == listdir(root_dir)
        sub(i) == IF isdir(join(root_dir, entries[i]))
                  THEN <<build_tree(join(root_dir, entries[i]))>>
                  ELSE <<>>
    IN [name |-> basename(root_dir),
        path |-> root_dir,
        children |-> Flatten([i \in 1..Len(entries) |-> sub(i)])]

RECURSIVE has_any_child_selected(_, _)
\* TRUE iff a child of t, or recursively a grandchild, is in selected
has_any_child_selected(t, sel) ==
    /\ t.children # <<>>
    /\ \E i \in 1..Len(t.children) :
          \/ In(t.children[i].path, sel)
          \/ has_any_child_selected(t.children[i], sel)

RECURSIVE add_children_recursive_append(_, _)
\* the child is appended without looking whether the list holds it
add_children_recursive_append(child, sel) ==
    LET s1 == Append(sel, child.path)
        F[i \in 0..Len(child.children)] ==
            IF i = 0 THEN s1 ELSE add_children_recursive_append(child.children[i], F[i - 1])
    IN F[Len(child.children)]

RECURSIVE add_children_recursive(_, _)
add_children_recursive(child, sel) ==
    LET s1 == IF ~In(child.path, sel) THEN Append(sel, child.path) ELSE sel
        F[i \in 0..Len(child.children)] ==
            IF i = 0 THEN s1 ELSE add_children_recursive(child.children[i], F[i - 1])
    IN F[Len(child.children)]

RECURSIVE remove_children_recursive(_, _)
remove_children_recursive(child, sel) ==
    LET s1 == IF In(child.path, sel) THEN Remove(sel, child.path) ELSE sel
        F[i \in 0..Len(child.children)] ==
            IF i = 0 THEN s1 ELSE remove_children_recursive(child.children[i], F[i - 1])
    IN F[Len(child.children)]

\* st.sidebar.checkbox(label, value=initial, key=path): the box shows `initial`
\* unless it is the one box the user clicked before this script run (toggled)
checkbox(path, initial, toggled) == IF path = toggled THEN ~initial ELSE initial

\* render_tree, the branch taken when the box is checked and the path is not selected
\* only the direct children are added, not the deeper descendants
check_branch_flat(t, sel) ==
    LET s1 == Append(sel, t.path)
        F[i \in 0..Len(t.children)] ==
            IF i = 0 THEN s1
            ELSE LET prev == F[i - 1]
                 IN IF In(t.children[i].path, prev) THEN prev
                    ELSE Append(prev, t.children[i].path)
    IN F[Len(t.children)]

check_branch(t, sel) ==
    LET s1 == Append(sel, t.path)
        F[i \in 0..Len(t.children)] ==
            IF i = 0 THEN s1 ELSE add_children_recursive(t.children[i], F[i - 1])
    IN F[Len(t.children)]

\* render_tree, the branch taken when the box is unchecked and the path is selected
uncheck_branch(t, sel) ==
    LET s1 == Remove(sel, t.path)
        F[i \in 0..Len(t.children)] ==
            IF i = 0 THEN s1 ELSE remove_children_recursive(t.children[i], F[i - 1])
    IN F[Len(t.children)]

\* no eviction after the children are rendered
post_pass_keep(t, sel) == sel

\* a selected folder is removed as soon as one of its children is not selected
post_pass_any_missing(t, sel) ==
    IF In(t.path, sel) /\ \E i \in 1..Len(t.children) : ~In(t.children[i].path, sel)
    THEN Remove(sel, t.path) ELSE sel

\* render_tree, after the children are rendered: a selected folder that has
\* children and none of them (recursively) selected is removed
post_pass(t, sel) ==
    IF t.children # <<>> /\ In(t.path, sel)
    THEN IF ~has_any_child_selected(t, sel) THEN Remove(sel, t.path) ELSE sel
    ELSE sel

RECURSIVE render_tree(_, _, _)
\* one rendering of the subtree t; the result is the list `selected` after it
render_tree(t, sel, toggled) ==
    LET initial == In(t.path, sel)
        checked == checkbox(t.path, initial, toggled)
        s1 == IF checked /\ ~In(t.path, sel) THEN check_branch(t, sel)
              ELSE IF ~checked /\ In(t.path, sel) THEN uncheck_branch(t, sel)
              ELSE sel
        F[i \in 0..Len(t.children)] ==
            IF i = 0 THEN s1 ELSE render_tree(t.children[i], F[i - 1], toggled)
    IN post_pass(t, F[Len(t.children)])

-----------------------------------------------------------------------------
(* GPXProcessor *)

\* GPXProcessor.__init__; raised: an exception has left a method of the object
NewProcessor == [tracks |-> <<>>, routes |-> <<>>, waypoints |-> <<>>, raised |-> FALSE]

RECURSIVE walk(_)
\* the GPX files os.walk(folder) meets: those of the folder, then its subfolders'
walk(folder) ==
    LET entries == listdir(folder)
        here(i) == IF ~isdir(join(folder, entries[i])) /\ is_gpx_name(entries[i])
                   THEN <<join(folder, entries[i])>> ELSE <<>>
        below(i) == IF isdir(join(folder, entries[i]))
                    THEN walk(join(folder, entries[i])) ELSE <<>>
    IN IF ~isdir(folder) THEN <<>>
       ELSE Flatten([i \in 1..Len(entries) |-> here(i)])
            \o Flatten([i \in 1..Len(entries) |-> below(i)])

find_gpx_files(folders) == Flatten([i \in 1..Len(folders) |-> walk(folders[i])])

\* the lower-cased parts of the path
extract_keywords(file_path) == [i \in 1..Len(file_path) |-> lower(file_path[i])]

\* 'osmand:icon' in ext.tag
tag_has_icon(tag) == tag \in {"osmand:icon"}

\* 'sym' in ext.tag
tag_has_sym(tag) == tag \in {"sym", "osmand:sym"}

\* str.strip() on the texts of the disk
strip(text) == IF text = " Flag " THEN "Flag" ELSE IF text = " " THEN "" ELSE text

extract_waypoint_icon(waypoint) ==
    LET exts == waypoint.extensions
        icons == {i \in 1..Len(exts) : tag_has_icon(exts[i].tag)}
        syms == {i \in 1..Len(exts) : tag_has_sym(exts[i].tag)}
        first(S) == CHOOSE i \in S : \A j \in S : i <= j
        \* ext.text.strip() raises on a None text; the except clause returns None
        text_of(i) == IF exts[i].text = None THEN None ELSE strip(exts[i].text)
    IN IF icons # {} THEN text_of(first(icons))
       ELSE IF syms # {} THEN text_of(first(syms))
       ELSE IF waypoint.symbol # None /\ waypoint.symbol # "" THEN strip(waypoint.symbol)
       ELSE None

\* each known elevation compared with the last known one before it
calculate_elevation_gain_carry(pts) ==
    LET n == Len(pts)
        \* F[i] = <<gain so far, last known elevation as <<e>> or <<>> >>
        F[i \in 0..n] ==
            IF i = 0 THEN <<0, <<>>>>
            ELSE LET prev == F[i - 1]
                 IN IF pts[i].elevation = <<>> THEN prev
                    ELSE IF prev[2] = <<>> THEN <<prev[1], pts[i].elevation>>
                    ELSE <<IF pts[i].elevation[1] > prev[2][1]
                           THEN prev[1] + pts[i].elevation[1] - prev[2][1]
                           ELSE prev[1],
                           pts[i].elevation>>
    IN IF n < 2 THEN 0 ELSE F[n][1]

\* an unknown elevation read as 0 instead of skipping the pair
calculate_elevation_gain_zero(pts) ==
    LET n == Len(pts)
        ele(i) == IF pts[i].elevation # <<>> THEN pts[i].elevation[1] ELSE 0
        F[i \in 1..n] ==
            IF i = 1 THEN 0
            ELSE IF ele(i) - ele(i - 1) > 0 THEN F[i - 1] + ele(i) - ele(i - 1)
                 ELSE F[i - 1]
    IN IF n < 2 THEN 0 ELSE F[n]

calculate_elevation_gain(pts) ==
    LET n == Len(pts)
        F[i \in 1..n] ==
            IF i = 1 THEN 0
            ELSE IF pts[i].elevation # <<>> /\ pts[i - 1].elevation # <<>>
                 THEN LET diff == pts[i].elevation[1] - pts[i - 1].elevation[1]
                      IN IF diff > 0 THEN F[i - 1] + diff ELSE F[i - 1]
                 ELSE F[i - 1]
    IN IF n < 2 THEN 0 ELSE F[n]

\* point.distance_3d(other), in whole metres: the planar distance when an
\* elevation is unknown
distance_3d(point, other) ==
    LET dx == IF other.x >= point.x THEN other.x - point.x ELSE point.x - other.x
    IN IF point.elevation = <<>> \/ other.elevation = <<>> THEN dx
       ELSE LET d == other.elevation[1] - point.elevation[1]
                de == IF d >= 0 THEN d ELSE 0 - d
            IN CHOOSE r \in 0..(dx + de) :
                  r * r <= dx * dx + de * de /\ dx * dx + de * de < (r + 1) * (r + 1)

\* track.length_3d(): the lengths of all the segments of the track
length_3d(track) ==
    LET of_segment(seg) ==
            LET F[i \in 0..Len(seg)] ==
                    IF i <= 1 THEN 0 ELSE F[i - 1] + distance_3d(seg[i - 1], seg[i])
            IN F[Len(seg)]
        G[j \in 0..Len(track.segments)] ==
            IF j = 0 THEN 0 ELSE G[j - 1] + of_segment(track.segments[j])
    IN G[Len(track.segments)]

\* one TrackData per segment with points, over the tracks in document order
track_records(file_path, folder_path, keywords, gpx) ==
    LET rec(track, seg) == [file_path |-> file_path,
                            folder_path |-> folder_path,
                            name |-> basename(file_path),
                            points |-> seg,
                            length |-> length_3d(track),
                            elevation_gain |-> calculate_elevation_gain(seg),
                            keywords |-> keywords]
        of_track(t) == Flatten([j \in 1..Len(t.segments) |->
                          IF t.segments[j] # <<>> THEN <<rec(t, t.segments[j])>> ELSE <<>>])
    IN Flatten([i \in 1..Len(gpx.tracks) |-> of_track(gpx.tracks[i])])

\* one RouteData per route with points
route_records(file_path, folder_path, keywords, gpx) ==
    LET rec(r) == [file_path |-> file_path,
                   folder_path |-> folder_path,
                   name |-> basename(file_path),
                   points |-> r.points,
                   keywords |-> keywords]
    IN Flatten([i \in 1..Len(gpx.routes) |->
          IF gpx.routes[i].points # <<>> THEN <<rec(gpx.routes[i])>> ELSE <<>>])

\* one WaypointData per waypoint
waypoint_records(file_path, folder_path, keywords, gpx) ==
    LET rec(w) == [file_path |-> file_path,
                   folder_path |-> folder_path,
                   name |-> IF w.name # None /\ w.name # "" THEN w.name
                            ELSE basename(file_path),
                   icon |-> extract_waypoint_icon(w),
                   keywords |-> keywords]
    IN [i \in 1..Len(gpx.waypoints) |-> rec(gpx.waypoints[i])]

IsPrefix(p, q) == Len(p) <= Len(q) /\ SubSeq(q, 1, Len(p)) = p

\* a file is kept when an ancestor of its folder is selected
folder_selected_ancestor(folder_path, selected_folders) ==
    \E i \in 1..Len(selected_folders) : IsPrefix(selected_folders[i], folder_path)

\* process_gpx_file's filter: folder_path in selected_folders
folder_selected(folder_path, selected_folders) == In(folder_path, selected_folders)

\* the exception propagates instead of being caught
parse_failed_raise(st, file_path) == [st EXCEPT !.raised = TRUE]

\* process_gpx_file's except clause: the error is printed, nothing is raised
parse_failed(st, file_path) == st

process_gpx_file(st, file_path, selected_folders) ==
    LET folder_path == dirname(file_path)
        keywords == extract_keywords(file_path)
        r == parse(file_path)
    IN IF ~folder_selected(folder_path, selected_folders) THEN st
       ELSE IF ~r.ok THEN parse_failed(st, file_path)
       ELSE [st EXCEPT
               !.tracks = @ \o track_records(file_path, folder_path, keywords, r.gpx),
               !.routes = @ \o route_records(file_path, folder_path, keywords, r.gpx),
               !.waypoints = @ \o waypoint_records(file_path, folder_path, keywords, r.gpx)]

\* the collections are not cleared before the files are processed
clear_nothing(st) == st

\* self.tracks.clear(); self.routes.clear(); self.waypoints.clear()
clear_collections(st) == [st EXCEPT !.tracks = <<>>, !.routes = <<>>, !.waypoints = <<>>]

\* the loop stops at the first call an exception leaves
process_folders(st, folders) ==
    LET gpx_files == find_gpx_files(folders)
        F[i \in 0..Len(gpx_files)] ==
            IF i = 0 THEN clear_collections(st)
            ELSE LET prev == F[i - 1]
                 IN IF prev.raised THEN prev
                    ELSE process_gpx_file(prev, gpx_files[i], folders)
    IN F[Len(gpx_files)]

-----------------------------------------------------------------------------
(* GPXApp.run_streamlit_ui: one action is one run of the script, started by *)
(* one user interaction                                                     *)

NoToggle == <<>>

RECURSIVE TreePaths(_)
\* the paths of the nodes of a tree
TreePaths(t) == {t.path} \cup UNION {TreePaths(t.children[i]) : i \in 1..Len(t.children)}

\* what the user types as root folder: a folder, a missing path, a file
RootInputs == {pA, pB, pX, fa}

\* the "Arborescence" block: render_tree on the session's tree and list
render_session(tr, sel, toggled) ==
    IF tr # <<>> THEN render_tree(tr[1], sel, toggled) ELSE sel

\* the session keeps the collections it held
recompute_stale(sel) ==
    [tracks |-> tracks_data, routes |-> routes_data, waypoints |-> waypoints_data,
     raised |-> FALSE]

\* process_folders on the processor of this run's GPXApp(), whose collections
\* the session then holds
recompute(sel) == process_folders(NewProcessor, sel)

\* the list is left as it was
selection_kept(sel) == sel

\* st.session_state["selected"] = [] of a successful load
selection_reset(sel) == <<>>

\* "Charger l'arborescence" clicked with root_folder typed in; saved: whether
\* save_last_folder managed to write the preference file
LoadTree(root_folder, saved) ==
    /\ IF ~isdir(root_folder)
       THEN /\ tree' = tree
            /\ last_folder' = last_folder
            /\ selected' = render_session(tree, selected, NoToggle)
       ELSE /\ tree' = <<build_tree(root_folder)>>
            /\ last_folder' = IF saved THEN root_folder ELSE last_folder
            /\ selected' = render_session(tree', selection_reset(selected), NoToggle)
    /\ last' = [op |-> "load", path |-> root_folder, target |-> FALSE,
                ok |-> isdir(root_folder), before |-> selected # <<>>]
    /\ UNCHANGED <<broken, tracks_data, routes_data, waypoints_data, show_map>>
    /\ UNCHANGED <<aggVars, gainVars, fnVars>>

\* the checkbox of folder path clicked
Toggle(path) ==
    /\ tree # <<>>
    /\ path \in TreePaths(tree[1])
    /\ selected' = render_session(tree, selected, path)
    /\ last' = [op |-> "toggle", path |-> path, target |-> ~In(path, selected),
                ok |-> TRUE, before |-> selected # <<>>]
    /\ UNCHANGED <<broken, tree, tracks_data, routes_data, waypoints_data,
                   show_map, last_folder>>
    /\ UNCHANGED <<aggVars, gainVars, fnVars>>

\* "Afficher la carte" clicked
ShowMap ==
    /\ tree # <<>>
    /\ selected' = render_session(tree, selected, NoToggle)
    /\ IF selected' = <<>>
       THEN UNCHANGED <<tracks_data, routes_data, waypoints_data, show_map>>
       ELSE LET p == recompute(selected')
            IN /\ tracks_data' = p.tracks
               /\ routes_data' = p.routes
               /\ waypoints_data' = p.waypoints
               /\ show_map' = TRUE
    /\ last' = [op |-> "showmap", path |-> <<>>, target |-> FALSE,
                ok |-> selected' # <<>>, before |-> selected # <<>>]
    /\ UNCHANGED <<broken, tree, last_folder>>
    /\ UNCHANGED <<aggVars, gainVars, fnVars>>

\* the search button clicked with a place typed in; st.rerun() then runs the
\* script once more without interaction
SearchLocation ==
    /\ show_map
    /\ LET sel == render_session(tree, selected, NoToggle)
           p == recompute(sel)
       IN /\ tracks_data' = p.tracks
          /\ routes_data' = p.routes
          /\ waypoints_data' = p.waypoints
          /\ selected' = render_session(tree, sel, NoToggle)
    /\ last' = [op |-> "search", path |-> <<>>, target |-> FALSE, ok |-> TRUE,
                before |-> selected # <<>>]
    /\ UNCHANGED <<broken, tree, show_map, last_folder>>
    /\ UNCHANGED <<aggVars, gainVars, fnVars>>

InitAggVars ==
    /\ proc = NewProcessor
    /\ call = [made |-> FALSE, folders |-> <<>>, held |-> FALSE]

InitGainVars ==
    /\ points = <<>>
    /\ gains = [stage |-> "new", whole |-> 0, disjoint |-> 0, shared |-> 0]

\* nothing has been called yet
InitIconVars == icon_call = [stage |-> "new"]

InitEmojiVars == emoji_call = [stage |-> "new"]

InitColorVars == color_call = [stage |-> "new"]

InitProfileVars == profile_call = [stage |-> "new"]

InitMapVars == map_call = [stage |-> "new"]

InitCliVars == cli = [stage |-> "new"]

InitRenderVars == render_call = [stage |-> "new"]

InitFnVars ==
    /\ InitIconVars
    /\ InitEmojiVars
    /\ InitColorVars
    /\ InitProfileVars
    /\ InitMapVars
    /\ InitCliVars
    /\ InitRenderVars

InitUiVars ==
    /\ tree = <<>>
    /\ selected = <<>>
    /\ tracks_data = <<>>
    /\ routes_data = <<>>
    /\ waypoints_data = <<>>
    /\ show_map = FALSE
    /\ last_folder = <<>>
    /\ last = [op |-> "start", path |-> <<>>, target |-> FALSE, ok |-> TRUE,
               before |-> FALSE]

\* an empty session on the disk on which m.gpx is corrupt
Init ==
    /\ broken = {fm}
    /\ InitUiVars
    /\ InitAggVars
    /\ InitGainVars
    /\ InitFnVars

Next ==
    \/ \E root_folder \in RootInputs, saved \in BOOLEAN : LoadTree(root_folder, saved)
    \/ \E path \in Dirs : Toggle(path)
    \/ ShowMap
    \/ SearchLocation

Spec == Init /\ [][Next]_vars

-----------------------------------------------------------------------------
(* GPXProcessor driven directly: any caller, any folder lists *)

\* the folders a caller names: folders of the disk and a missing one
FolderChoices == {pA, pB, pE, pX}

FolderLists == UNION {[1..n -> FolderChoices] : n \in 0..MaxFolders}

Held(st) == Len(st.tracks) + Len(st.routes) + Len(st.waypoints) > 0

ProcessFolders(folders) ==
    /\ proc' = process_folders(proc, folders)
    /\ call' = [made |-> TRUE, folders |-> folders, held |-> Held(proc)]
    /\ UNCHANGED <<broken, uiVars, gainVars, fnVars>>

InitAgg ==
    /\ broken \in SUBSET Corruptible
    /\ InitUiVars
    /\ InitAggVars
    /\ InitGainVars
    /\ InitFnVars

NextAgg == \E folders \in FolderLists : ProcessFolders(folders)

SpecAgg == InitAgg /\ [][NextAgg]_vars

-----------------------------------------------------------------------------
(* calculate_elevation_gain applied to point sequences and to their pieces *)

ElevationChoices == {PtNoEle, Pt(100), Pt(120), Pt(150)}

PointSeqs == UNION {[1..n -> ElevationChoices] : n \in 0..MaxPts}

\* the gain of the whole sequence
ComputeGain ==
    /\ gains.stage = "new"
    /\ gains' = [gains EXCEPT !.stage = "whole",
                              !.whole = calculate_elevation_gain(points)]
    /\ UNCHANGED <<broken, uiVars, aggVars, points, fnVars>>

\* the gains of three contiguous pieces cut after points i and j: disjoint
\* pieces, and pieces that share the point at each cut
ComputePieces(i, j) ==
    /\ gains.stage = "whole"
    /\ 1 <= i /\ i <= j /\ j <= Len(points)
    /\ gains' = [gains EXCEPT
          !.stage = "split",
          !.disjoint = calculate_elevation_gain(SubSeq(points, 1, i))
                       + calculate_elevation_gain(SubSeq(points, i + 1, j))
                       + calculate_elevation_gain(SubSeq(points, j + 1, Len(points))),
          !.shared = calculate_elevation_gain(SubSeq(points, 1, i))
                     + calculate_elevation_gain(SubSeq(points, i, j))
                     + calculate_elevation_gain(SubSeq(points, j, Len(points)))]
    /\ UNCHANGED <<broken, uiVars, aggVars, points, fnVars>>

InitGain ==
    /\ broken = {}
    /\ InitUiVars
    /\ InitAggVars
    /\ points \in PointSeqs
    /\ gains = [stage |-> "new", whole |-> 0, disjoint |-> 0, shared |-> 0]
    /\ InitFnVars

NextGain ==
    \/ ComputeGain
    \/ \E i \in 1..MaxPts, j \in 1..MaxPts : ComputePieces(i, j)

SpecGain == InitGain /\ [][NextGain]_vars

-----------------------------------------------------------------------------
(* extract_waypoint_icon applied to waypoints *)

MaxExts == 2

\* tags of extension elements: the icon hint, two symbol tags, another tag
ExtTags == {"osmand:icon", "sym", "osmand:sym", "osmand:color"}

\* text of an element: none, empty, blank, a word, a padded word
ExtTexts == {None, "", " ", "museum", " Flag "}

Extensions == [tag : ExtTags, text : ExtTexts]

ExtensionLists == UNION {[1..n -> Extensions] : n \in 0..MaxExts}

Symbols == {None, "", "Flag", " Flag "}

Waypoints == [extensions : ExtensionLists, symbol : Symbols]

ExtractIcon ==
    /\ icon_call.stage = "ready"
    /\ icon_call' = [icon_call EXCEPT !.stage = "done",
                                      !.icon = extract_waypoint_icon(icon_call.waypoint)]
    /\ UNCHANGED <<broken, uiVars, aggVars, gainVars>>
    /\ UNCHANGED <<emoji_call, color_call, profile_call, map_call, cli, render_call>>

InitIcon ==
    /\ broken = {}
    /\ InitUiVars
    /\ InitAggVars
    /\ InitGainVars
    /\ icon_call \in [stage : {"ready"}, waypoint : Waypoints, icon : {None}]
    /\ InitEmojiVars
    /\ InitColorVars
    /\ InitProfileVars
    /\ InitMapVars
    /\ InitCliVars
    /\ InitRenderVars

NextIcon == ExtractIcon

SpecIcon == InitIcon /\ [][NextIcon]_vars

-----------------------------------------------------------------------------
(* get_emoji_for_icon applied to icons and names *)

\* A str is the sequence of its characters, each a one-character string; a
\* character outside ASCII is written as its code point, and so is a glyph.

\* None where a str is expected
NoStr == <<None>>

Uppercase == <<"A", "B", "C", "D", "E", "F", "G", "H", "I", "J", "K", "L", "M", "N", "O", "P", "Q", "R", "S", "T", "U", "V", "W", "X", "Y", "Z", "U+00C9">>

Lowercase == <<"a", "b", "c", "d", "e", "f", "g", "h", "i", "j", "k", "l", "m", "n", "o", "p", "q", "r", "s", "t", "u", "v", "w", "x", "y", "z", "U+00E9">>

\* the accented letters of the keywords and their capitals
AccentedLetters == {"U+00E2", "U+00E8", "U+00E9", "U+00EE", "U+00F4", "U+00C9"}

Digits == {"0", "1", "2", "3", "4", "5", "6", "7", "8", "9"}

\* str.lower()
str_lower(s) ==
    LET low(c) == IF \E i \in 1..Len(Uppercase) : Uppercase[i] = c
                  THEN Lowercase[CHOOSE i \in 1..Len(Uppercase) : Uppercase[i] = c]
                  ELSE c
    IN [i \in 1..Len(s) |-> low(s[i])]

\* str.replace(old, new) for one-character old and new
str_replace(s, old, new) == [i \in 1..Len(s) |-> IF s[i] = old THEN new ELSE s[i]]

\* sub in s
str_contains(sub, s) ==
    \E i \in 0..(Len(s) - Len(sub)) : SubSeq(s, i + 1, i + Len(sub)) = sub

RECURSIVE str_split(_)
\* str.split(): the words between runs of spaces
str_split(s) ==
    IF s = <<>> THEN <<>>
    ELSE IF Head(s) = " " THEN str_split(Tail(s))
    ELSE LET S == {i \in 1..Len(s) : s[i] = " "}
             n == IF S = {} THEN Len(s) + 1 ELSE CHOOSE i \in S : \A j \in S : i <= j
         IN <<SubSeq(s, 1, n - 1)>> \o str_split(SubSeq(s, n + 1, Len(s)))

\* c.isalnum()
isalnum(c) ==
    \/ \E i \in 1..Len(Uppercase) : c = Uppercase[i] \/ c = Lowercase[i]
    \/ c \in AccentedLetters \cup Digits

\* icon_mapping.items(): the keys in the order of their first occurrence in the
\* dict display, each with the value of its last occurrence
icon_mapping == <<
    [key |-> <<"r", "e", "s", "t", "a", "u", "r", "a", "n", "t">>, emoji |-> "U+1F37D.U+FE0F"],
    [key |-> <<"r", "e", "s", "t", "a", "u", "r", "a", "n", "t", "s">>, emoji |-> "U+1F37D.U+FE0F"],
    [key |-> <<"r", "e", "s", "t", "o">>, emoji |-> "U+1F37D.U+FE0F"],
    [key |-> <<"c", "a", "f", "e">>, emoji |-> "U+2615"],
    [key |-> <<"c", "a", "f", "U+00E9">>, emoji |-> "U+2615"],
    [key |-> <<"c", "o", "f", "f", "e", "e">>, emoji |-> "U+2615"],
    [key |-> <<"c", "o", "f", "f", "e", "e", " ", "s", "h", "o", "p">>, emoji |-> "U+2615"],
    [key |-> <<"b", "a", "r">>, emoji |-> "U+1F37A"],
    [key |-> <<"p", "u", "b">>, emoji |-> "U+1F37A"],
    [key |-> <<"b", "r", "a", "s", "s", "e", "r", "i", "e">>, emoji |-> "U+1F37A"],
    [key |-> <<"f", "o", "o", "d">>, emoji |-> "U+1F355"],
    [key |-> <<"n", "o", "u", "r", "r", "i", "t", "u", "r", "e">>, emoji |-> "U+1F355"],
    [key |-> <<"m", "a", "n", "g", "e", "r">>, emoji |-> "U+1F355"],
    [key |-> <<"p", "i", "z", "z", "a">>, emoji |-> "U+1F355"],
    [key |-> <<"p", "i", "z", "z", "e", "r", "i", "a">>, emoji |-> "U+1F355"],
    [key |-> <<"b", "u", "r", "g", "e", "r">>, emoji |-> "U+1F354"],
    [key |-> <<"h", "a", "m", "b", "u", "r", "g", "e", "r">>, emoji |-> "U+1F354"],
    [key |-> <<"b", "o", "u", "l", "a", "n", "g", "e", "r", "i", "e">>, emoji |-> "U+1F956"],
    [key |-> <<"b", "a", "k", "e", "r", "y">>, emoji |-> "U+1F956"],
    [key |-> <<"b", "o", "u", "l", "a", "n", "g", "e", "r">>, emoji |-> "U+1F956"],
    [key |-> <<"p", "a", "t", "i", "s", "s", "e", "r", "i", "e">>, emoji |-> "U+1F9C1"],
    [key |-> <<"p", "U+00E2", "t", "i", "s", "s", "e", "r", "i", "e">>, emoji |-> "U+1F9C1"],
    [key |-> <<"p", "a", "t", "i", "s", "s", "i", "e", "r">>, emoji |-> "U+1F9C1"],
    [key |-> <<"c", "a", "r">>, emoji |-> "U+1F697"],
    [key |-> <<"v", "o", "i", "t", "u", "r", "e">>, emoji |-> "U+1F697"],
    [key |-> <<"a", "u", "t", "o">>, emoji |-> "U+1F697"],
    [key |-> <<"b", "u", "s">>, emoji |-> "U+1F68C"],
    [key |-> <<"a", "u", "t", "o", "b", "u", "s">>, emoji |-> "U+1F68C"],
    [key |-> <<"t", "r", "a", "i", "n">>, emoji |-> "U+1F682"],
    [key |-> <<"g", "a", "r", "e">>, emoji |-> "U+1F682"],
    [key |-> <<"s", "t", "a", "t", "i", "o", "n">>, emoji |-> "U+1F682"],
    [key |-> <<"m", "e", "t", "r", "o">>, emoji |-> "U+1F687"],
    [key |-> <<"m", "U+00E9", "t", "r", "o">>, emoji |-> "U+1F687"],
    [key |-> <<"s", "u", "b", "w", "a", "y">>, emoji |-> "U+1F687"],
    [key |-> <<"a", "i", "r", "p", "o", "r", "t">>, emoji |-> "U+2708.U+FE0F"],
    [key |-> <<"a", "U+00E9", "r", "o", "p", "o", "r", "t">>, emoji |-> "U+2708.U+FE0F"],
    [key |-> <<"a", "e", "r", "o", "p", "o", "r", "t">>, emoji |-> "U+2708.U+FE0F"],
    [key |-> <<"p", "a", "r", "k", "i", "n", "g">>, emoji |-> "U+1F17F.U+FE0F"],
    [key |-> <<"s", "t", "a", "t", "i", "o", "n", "n", "e", "m", "e", "n", "t">>, emoji |-> "U+1F17F.U+FE0F"],
    [key |-> <<"g", "a", "s">>, emoji |-> "U+26FD"],
    [key |-> <<"e", "s", "s", "e", "n", "c", "e">>, emoji |-> "U+26FD"],
    [key |-> <<"s", "t", "a", "t", "i", "o", "n", " ", "s", "e", "r", "v", "i", "c", "e">>, emoji |-> "U+26FD"],
    [key |-> <<"b", "i", "k", "e">>, emoji |-> "U+1F6B4"],
    [key |-> <<"v", "U+00E9", "l", "o">>, emoji |-> "U+1F6B4"],
    [key |-> <<"v", "e", "l", "o">>, emoji |-> "U+1F6B4"],
    [key |-> <<"b", "i", "c", "y", "c", "l", "e">>, emoji |-> "U+1F6B4"],
    [key |-> <<"h", "o", "t", "e", "l">>, emoji |-> "U+1F3E8"],
    [key |-> <<"h", "U+00F4", "t", "e", "l">>, emoji |-> "U+1F3E8"],
    [key |-> <<"h", "o", "t", "e", "l", "s">>, emoji |-> "U+1F3E8"],
    [key |-> <<"h", "o", "s", "t", "e", "l">>, emoji |-> "U+1F3E8"],
    [key |-> <<"a", "u", "b", "e", "r", "g", "e">>, emoji |-> "U+1F3E8"],
    [key |-> <<"c", "a", "m", "p", "i", "n", "g">>, emoji |-> "U+26FA"],
    [key |-> <<"c", "a", "m", "p">>, emoji |-> "U+26FA"],
    [key |-> <<"b", "e", "d">>, emoji |-> "U+1F6CF.U+FE0F"],
    [key |-> <<"l", "i", "t">>, emoji |-> "U+1F6CF.U+FE0F"],
    [key |-> <<"c", "h", "a", "m", "b", "r", "e">>, emoji |-> "U+1F6CF.U+FE0F"],
    [key |-> <<"g", "i", "t", "e">>, emoji |-> "U+1F3E0"],
    [key |-> <<"g", "U+00EE", "t", "e">>, emoji |-> "U+1F3E0"],
    [key |-> <<"g", "i", "t", "e", "s">>, emoji |-> "U+1F3E0"],
    [key |-> <<"s", "h", "o", "p">>, emoji |-> "U+1F6CD.U+FE0F"],
    [key |-> <<"m", "a", "g", "a", "s", "i", "n">>, emoji |-> "U+1F6CD.U+FE0F"],
    [key |-> <<"b", "o", "u", "t", "i", "q", "u", "e">>, emoji |-> "U+1F6CD.U+FE0F"],
    [key |-> <<"s", "t", "o", "r", "e">>, emoji |-> "U+1F3EA"],
    [key |-> <<"c", "o", "m", "m", "e", "r", "c", "e">>, emoji |-> "U+1F3EA"],
    [key |-> <<"m", "a", "r", "k", "e", "t">>, emoji |-> "U+1F3EA"],
    [key |-> <<"m", "a", "r", "c", "h", "U+00E9">>, emoji |-> "U+1F3EA"],
    [key |-> <<"m", "a", "r", "c", "h", "e">>, emoji |-> "U+1F6B6"],
    [key |-> <<"p", "h", "a", "r", "m", "a", "c", "y">>, emoji |-> "U+1F48A"],
    [key |-> <<"p", "h", "a", "r", "m", "a", "c", "i", "e">>, emoji |-> "U+1F48A"],
    [key |-> <<"b", "a", "n", "k">>, emoji |-> "U+1F3E6"],
    [key |-> <<"b", "a", "n", "q", "u", "e">>, emoji |-> "U+1F3E6"],
    [key |-> <<"a", "t", "m">>, emoji |-> "U+1F3E7"],
    [key |-> <<"d", "i", "s", "t", "r", "i", "b", "u", "t", "e", "u", "r">>, emoji |-> "U+1F3E7"],
    [key |-> <<"s", "u", "p", "e", "r", "m", "a", "r", "k", "e", "t">>, emoji |-> "U+1F3EA"],
    [key |-> <<"s", "u", "p", "e", "r", "m", "a", "r", "c", "h", "U+00E9">>, emoji |-> "U+1F3EA"],
    [key |-> <<"s", "u", "p", "e", "r", "m", "a", "r", "c", "h", "e">>, emoji |-> "U+1F3EA"],
    [key |-> <<"m", "u", "s", "e", "u", "m">>, emoji |-> "U+1F3DB.U+FE0F"],
    [key |-> <<"m", "u", "s", "U+00E9", "e">>, emoji |-> "U+1F3DB.U+FE0F"],
    [key |-> <<"m", "u", "s", "e", "e">>, emoji |-> "U+1F3DB.U+FE0F"],
    [key |-> <<"m", "u", "s", "e", "u", "m", "s">>, emoji |-> "U+1F3DB.U+FE0F"],
    [key |-> <<"t", "h", "e", "a", "t", "e", "r">>, emoji |-> "U+1F3AD"],
    [key |-> <<"t", "h", "U+00E9", "U+00E2", "t", "r", "e">>, emoji |-> "U+1F3AD"],
    [key |-> <<"t", "h", "e", "a", "t", "r", "e">>, emoji |-> "U+1F3AD"],
    [key |-> <<"c", "i", "n", "e", "m", "a">>, emoji |-> "U+1F3AC"],
    [key |-> <<"c", "i", "n", "U+00E9", "m", "a">>, emoji |-> "U+1F3AC"],
    [key |-> <<"l", "i", "b", "r", "a", "r", "y">>, emoji |-> "U+1F4DA"],
    [key |-> <<"b", "i", "b", "l", "i", "o", "t", "h", "U+00E8", "q", "u", "e">>, emoji |-> "U+1F4DA"],
    [key |-> <<"b", "i", "b", "l", "i", "o", "t", "h", "e", "q", "u", "e">>, emoji |-> "U+1F4DA"],
    [key |-> <<"b", "o", "o", "k">>, emoji |-> "U+1F4D6"],
    [key |-> <<"l", "i", "v", "r", "e">>, emoji |-> "U+1F4D6"],
    [key |-> <<"l", "i", "b", "r", "a", "i", "r", "i", "e">>, emoji |-> "U+1F4D6"],
    [key |-> <<"m", "u", "s", "i", "c">>, emoji |-> "U+1F3B5"],
    [key |-> <<"m", "u", "s", "i", "q", "u", "e">>, emoji |-> "U+1F3B5"],
    [key |-> <<"a", "r", "t">>, emoji |-> "U+1F3A8"],
    [key |-> <<"a", "r", "t", "i", "s", "t", "e">>, emoji |-> "U+1F3A8"],
    [key |-> <<"g", "a", "l", "l", "e", "r", "y">>, emoji |-> "U+1F5BC.U+FE0F"],
    [key |-> <<"g", "a", "l", "e", "r", "i", "e">>, emoji |-> "U+1F5BC.U+FE0F"],
    [key |-> <<"s", "p", "e", "c", "t", "a", "c", "l", "e">>, emoji |-> "U+1F3AD"],
    [key |-> <<"p", "a", "r", "k">>, emoji |-> "U+1F333"],
    [key |-> <<"p", "a", "r", "c">>, emoji |-> "U+1F333"],
    [key |-> <<"j", "a", "r", "d", "i", "n">>, emoji |-> "U+1F33B"],
    [key |-> <<"g", "a", "r", "d", "e", "n">>, emoji |-> "U+1F33B"],
    [key |-> <<"j", "a", "r", "d", "i", "n", "s">>, emoji |-> "U+1F33B"],
    [key |-> <<"b", "e", "a", "c", "h">>, emoji |-> "U+1F3D6.U+FE0F"],
    [key |-> <<"p", "l", "a", "g", "e">>, emoji |-> "U+1F3D6.U+FE0F"],
    [key |-> <<"m", "o", "u", "n", "t", "a", "i", "n">>, emoji |-> "U+26F0.U+FE0F"],
    [key |-> <<"m", "o", "n", "t", "a", "g", "n", "e">>, emoji |-> "U+26F0.U+FE0F"],
    [key |-> <<"m", "o", "n", "t">>, emoji |-> "U+26F0.U+FE0F"],
    [key |-> <<"h", "i", "k", "i", "n", "g">>, emoji |-> "U+1F97E"],
    [key |-> <<"r", "a", "n", "d", "o", "n", "n", "U+00E9", "e">>, emoji |-> "U+1F97E"],
    [key |-> <<"r", "a", "n", "d", "o", "n", "n", "e", "e">>, emoji |-> "U+1F97E"],
    [key |-> <<"t", "r", "e", "k">>, emoji |-> "U+1F97E"],
    [key |-> <<"w", "a", "l", "k", "i", "n", "g">>, emoji |-> "U+1F6B6"],
    [key |-> <<"p", "i", "U+00E9", "t", "o", "n">>, emoji |-> "U+1F6B6"],
    [key |-> <<"s", "w", "i", "m", "m", "i", "n", "g">>, emoji |-> "U+1F3CA"],
    [key |-> <<"n", "a", "t", "a", "t", "i", "o", "n">>, emoji |-> "U+1F3CA"],
    [key |-> <<"p", "i", "s", "c", "i", "n", "e">>, emoji |-> "U+1F3CA"],
    [key |-> <<"s", "u", "m", "m", "i", "t">>, emoji |-> "U+26F0.U+FE0F"],
    [key |-> <<"s", "o", "m", "m", "e", "t">>, emoji |-> "U+26F0.U+FE0F"],
    [key |-> <<"p", "i", "c">>, emoji |-> "U+26F0.U+FE0F"],
    [key |-> <<"p", "e", "a", "k">>, emoji |-> "U+26F0.U+FE0F"],
    [key |-> <<"v", "i", "e", "w", "p", "o", "i", "n", "t">>, emoji |-> "U+1F441.U+FE0F"],
    [key |-> <<"p", "o", "i", "n", "t", " ", "d", "e", " ", "v", "u", "e">>, emoji |-> "U+1F441.U+FE0F"],
    [key |-> <<"b", "e", "l", "v", "U+00E9", "d", "U+00E8", "r", "e">>, emoji |-> "U+1F441.U+FE0F"],
    [key |-> <<"b", "i", "n", "o", "c", "u", "l", "a", "r", "s">>, emoji |-> "U+1F52D"],
    [key |-> <<"j", "u", "m", "e", "l", "l", "e", "s">>, emoji |-> "U+1F52D"],
    [key |-> <<"o", "b", "s", "e", "r", "v", "a", "t", "i", "o", "n">>, emoji |-> "U+1F52D"],
    [key |-> <<"l", "a", "c">>, emoji |-> "U+1F3DE.U+FE0F"],
    [key |-> <<"l", "a", "k", "e">>, emoji |-> "U+1F3DE.U+FE0F"],
    [key |-> <<"U+00E9", "t", "a", "n", "g">>, emoji |-> "U+1F3DE.U+FE0F"],
    [key |-> <<"e", "t", "a", "n", "g">>, emoji |-> "U+1F3DE.U+FE0F"],
    [key |-> <<"r", "i", "v", "i", "U+00E8", "r", "e">>, emoji |-> "U+1F3DE.U+FE0F"],
    [key |-> <<"r", "i", "v", "i", "e", "r", "e">>, emoji |-> "U+1F3DE.U+FE0F"],
    [key |-> <<"r", "i", "v", "e", "r">>, emoji |-> "U+1F3DE.U+FE0F"],
    [key |-> <<"s", "p", "e", "c", "i", "a", "l">>, emoji |-> "U+2B50"],
    [key |-> <<"s", "p", "U+00E9", "c", "i", "a", "l">>, emoji |-> "U+2B50"],
    [key |-> <<"s", "t", "a", "r">>, emoji |-> "U+2B50"],
    [key |-> <<"U+00E9", "t", "o", "i", "l", "e">>, emoji |-> "U+2B50"],
    [key |-> <<"e", "t", "o", "i", "l", "e">>, emoji |-> "U+2B50"],
    [key |-> <<"s", "p", "e", "c", "i", "a", "l", " ", "s", "t", "a", "r">>, emoji |-> "U+2B50"],
    [key |-> <<"s", "p", "e", "c", "i", "a", "l", "_", "s", "t", "a", "r">>, emoji |-> "U+2B50"],
    [key |-> <<"f", "a", "v", "o", "r", "i", "t", "e">>, emoji |-> "U+2764.U+FE0F"],
    [key |-> <<"f", "a", "v", "o", "r", "i">>, emoji |-> "U+2764.U+FE0F"],
    [key |-> <<"f", "a", "v", "o", "r", "i", "s">>, emoji |-> "U+2764.U+FE0F"],
    [key |-> <<"i", "m", "p", "o", "r", "t", "a", "n", "t">>, emoji |-> "U+2B50"],
    [key |-> <<"m", "o", "n", "u", "m", "e", "n", "t">>, emoji |-> "U+1F3DB.U+FE0F"],
    [key |-> <<"m", "o", "n", "u", "m", "e", "n", "t", "s">>, emoji |-> "U+1F3DB.U+FE0F"],
    [key |-> <<"c", "h", "u", "r", "c", "h">>, emoji |-> "U+26EA"],
    [key |-> <<"U+00E9", "g", "l", "i", "s", "e">>, emoji |-> "U+26EA"],
    [key |-> <<"e", "g", "l", "i", "s", "e">>, emoji |-> "U+26EA"],
    [key |-> <<"c", "h", "a", "p", "e", "l", "l", "e">>, emoji |-> "U+26EA"],
    [key |-> <<"t", "e", "m", "p", "l", "e">>, emoji |-> "U+1F6D5"],
    [key |-> <<"m", "o", "s", "q", "u", "e">>, emoji |-> "U+1F54C"],
    [key |-> <<"m", "o", "s", "q", "u", "U+00E9", "e">>, emoji |-> "U+1F54C"],
    [key |-> <<"m", "o", "s", "q", "u", "e", "e">>, emoji |-> "U+1F54C"],
    [key |-> <<"c", "h", "U+00E2", "t", "e", "a", "u">>, emoji |-> "U+1F3F0"],
    [key |-> <<"c", "h", "a", "t", "e", "a", "u">>, emoji |-> "U+1F3F0"],
    [key |-> <<"c", "a", "s", "t", "l", "e">>, emoji |-> "U+1F3F0"],
    [key |-> <<"t", "o", "u", "r">>, emoji |-> "U+1F5FC"],
    [key |-> <<"t", "o", "w", "e", "r">>, emoji |-> "U+1F5FC"],
    [key |-> <<"h", "o", "s", "p", "i", "t", "a", "l">>, emoji |-> "U+1F3E5"],
    [key |-> <<"h", "U+00F4", "p", "i", "t", "a", "l">>, emoji |-> "U+1F3E5"],
    [key |-> <<"h", "o", "p", "i", "t", "a", "l">>, emoji |-> "U+1F3E5"],
    [key |-> <<"p", "o", "l", "i", "c", "e">>, emoji |-> "U+1F46E"],
    [key |-> <<"g", "e", "n", "d", "a", "r", "m", "e", "r", "i", "e">>, emoji |-> "U+1F46E"],
    [key |-> <<"c", "o", "m", "m", "i", "s", "s", "a", "r", "i", "a", "t">>, emoji |-> "U+1F46E"],
    [key |-> <<"f", "i", "r", "e">>, emoji |-> "U+1F692"],
    [key |-> <<"p", "o", "m", "p", "i", "e", "r", "s">>, emoji |-> "U+1F692"],
    [key |-> <<"s", "a", "p", "e", "u", "r", "s">>, emoji |-> "U+1F692"],
    [key |-> <<"p", "o", "s", "t">>, emoji |-> "U+1F4EE"],
    [key |-> <<"p", "o", "s", "t", "e">>, emoji |-> "U+1F4EE"],
    [key |-> <<"l", "a", " ", "p", "o", "s", "t", "e">>, emoji |-> "U+1F4EE"],
    [key |-> <<"p", "h", "o", "n", "e">>, emoji |-> "U+1F4DE"],
    [key |-> <<"t", "U+00E9", "l", "U+00E9", "p", "h", "o", "n", "e">>, emoji |-> "U+1F4DE"],
    [key |-> <<"t", "e", "l", "e", "p", "h", "o", "n", "e">>, emoji |-> "U+1F4DE"],
    [key |-> <<"w", "i", "f", "i">>, emoji |-> "U+1F4F6"],
    [key |-> <<"i", "n", "t", "e", "r", "n", "e", "t">>, emoji |-> "U+1F4F6"],
    [key |-> <<"m", "a", "i", "r", "i", "e">>, emoji |-> "U+1F3DB.U+FE0F"],
    [key |-> <<"t", "o", "w", "n", " ", "h", "a", "l", "l">>, emoji |-> "U+1F3DB.U+FE0F"],
    [key |-> <<"h", "U+00F4", "t", "e", "l", " ", "d", "e", " ", "v", "i", "l", "l", "e">>, emoji |-> "U+1F3DB.U+FE0F"],
    [key |-> <<"t", "o", "i", "l", "e", "t">>, emoji |-> "U+1F6BB"],
    [key |-> <<"w", "c">>, emoji |-> "U+1F6BB"],
    [key |-> <<"t", "o", "i", "l", "e", "t", "t", "e", "s">>, emoji |-> "U+1F6BB"],
    [key |-> <<"i", "n", "f", "o">>, emoji |-> "U+2139.U+FE0F"],
    [key |-> <<"i", "n", "f", "o", "r", "m", "a", "t", "i", "o", "n">>, emoji |-> "U+2139.U+FE0F"],
    [key |-> <<"i", "n", "f", "o", "r", "m", "a", "t", "i", "o", "n", "s">>, emoji |-> "U+2139.U+FE0F"],
    [key |-> <<"w", "a", "r", "n", "i", "n", "g">>, emoji |-> "U+26A0.U+FE0F"],
    [key |-> <<"a", "t", "t", "e", "n", "t", "i", "o", "n">>, emoji |-> "U+26A0.U+FE0F"],
    [key |-> <<"d", "a", "n", "g", "e", "r">>, emoji |-> "U+26A0.U+FE0F"],
    [key |-> <<"f", "l", "a", "g">>, emoji |-> "U+1F6A9"],
    [key |-> <<"d", "r", "a", "p", "e", "a", "u">>, emoji |-> "U+1F6A9"],
    [key |-> <<"h", "o", "m", "e">>, emoji |-> "U+1F3E0"],
    [key |-> <<"m", "a", "i", "s", "o", "n">>, emoji |-> "U+1F3E0"],
    [key |-> <<"d", "o", "m", "i", "c", "i", "l", "e">>, emoji |-> "U+1F3E0"],
    [key |-> <<"w", "o", "r", "k">>, emoji |-> "U+1F4BC"],
    [key |-> <<"t", "r", "a", "v", "a", "i", "l">>, emoji |-> "U+1F4BC"],
    [key |-> <<"b", "u", "r", "e", "a", "u">>, emoji |-> "U+1F4BC"],
    [key |-> <<"s", "c", "h", "o", "o", "l">>, emoji |-> "U+1F3EB"],
    [key |-> <<"U+00E9", "c", "o", "l", "e">>, emoji |-> "U+1F3EB"],
    [key |-> <<"e", "c", "o", "l", "e">>, emoji |-> "U+1F3EB"],
    [key |-> <<"u", "n", "i", "v", "e", "r", "s", "i", "t", "y">>, emoji |-> "U+1F393"],
    [key |-> <<"u", "n", "i", "v", "e", "r", "s", "i", "t", "U+00E9">>, emoji |-> "U+1F393"],
    [key |-> <<"u", "n", "i", "v", "e", "r", "s", "i", "t", "e">>, emoji |-> "U+1F393"],
    [key |-> <<"c", "i", "m", "e", "t", "i", "U+00E8", "r", "e">>, emoji |-> "U+26B0.U+FE0F"],
    [key |-> <<"c", "i", "m", "e", "t", "i", "e", "r", "e">>, emoji |-> "U+26B0.U+FE0F"],
    [key |-> <<"c", "e", "m", "e", "t", "e", "r", "y">>, emoji |-> "U+26B0.U+FE0F"],
    [key |-> <<"c", "a", "v", "e">>, emoji |-> "U+1F377"],
    [key |-> <<"w", "i", "n", "e">>, emoji |-> "U+1F377"],
    [key |-> <<"v", "i", "n">>, emoji |-> "U+1F377"],
    [key |-> <<"f", "r", "o", "m", "a", "g", "e">>, emoji |-> "U+1F9C0"],
    [key |-> <<"c", "h", "e", "e", "s", "e">>, emoji |-> "U+1F9C0"],
    [key |-> <<"f", "r", "o", "m", "a", "g", "e", "r", "i", "e">>, emoji |-> "U+1F9C0"],
    [key |-> <<"o", "s", "m", "a", "n", "d">>, emoji |-> "U+1F5FA.U+FE0F"],
    [key |-> <<"g", "a", "r", "m", "i", "n">>, emoji |-> "U+231A"],
    [key |-> <<"s", "t", "r", "a", "v", "a">>, emoji |-> "U+1F3C3"],
    [key |-> <<"w", "a", "y", "p", "o", "i", "n", "t">>, emoji |-> "U+1F4CD"],
    [key |-> <<"w", "a", "y", "p", "o", "i", "n", "t", "s">>, emoji |-> "U+1F4CD"],
    [key |-> <<"w", "p", "t">>, emoji |-> "U+1F4CD"],
    [key |-> <<"p", "o", "i">>, emoji |-> "U+1F4CD"],
    [key |-> <<"p", "o", "i", "n", "t", "_", "o", "f", "_", "i", "n", "t", "e", "r", "e", "s", "t">>, emoji |-> "U+1F4CD"],
    [key |-> <<"m", "a", "r", "k", "e", "r">>, emoji |-> "U+1F4CD"],
    [key |-> <<"p", "i", "n">>, emoji |-> "U+1F4CD"],
    [key |-> <<"l", "o", "c", "a", "t", "i", "o", "n">>, emoji |-> "U+1F4CD"],
    [key |-> <<"p", "l", "a", "c", "e">>, emoji |-> "U+1F4CD"],
    [key |-> <<"s", "p", "o", "t">>, emoji |-> "U+1F4CD"],
    [key |-> <<"s", "i", "t", "e">>, emoji |-> "U+1F4CD"],
    [key |-> <<"n", "o", "r", "t", "h">>, emoji |-> "U+1F9ED"],
    [key |-> <<"s", "o", "u", "t", "h">>, emoji |-> "U+1F9ED"],
    [key |-> <<"e", "a", "s", "t">>, emoji |-> "U+1F9ED"],
    [key |-> <<"w", "e", "s", "t">>, emoji |-> "U+1F9ED"],
    [key |-> <<"c", "o", "m", "p", "a", "s", "s">>, emoji |-> "U+1F9ED"],
    [key |-> <<"d", "i", "r", "e", "c", "t", "i", "o", "n">>, emoji |-> "U+1F9ED"],
    [key |-> <<"b", "e", "a", "r", "i", "n", "g">>, emoji |-> "U+1F9ED"],
    [key |-> <<"r", "o", "u", "t", "e">>, emoji |-> "U+1F6E3.U+FE0F"],
    [key |-> <<"r", "o", "a", "d">>, emoji |-> "U+1F6E3.U+FE0F"],
    [key |-> <<"p", "a", "t", "h">>, emoji |-> "U+1F6E3.U+FE0F"],
    [key |-> <<"t", "r", "a", "i", "l">>, emoji |-> "U+1F6E3.U+FE0F"],
    [key |-> <<"t", "r", "a", "c", "k">>, emoji |-> "U+1F6E4.U+FE0F"],
    [key |-> <<"r", "a", "i", "l", "w", "a", "y">>, emoji |-> "U+1F6E4.U+FE0F"],
    [key |-> <<"r", "a", "i", "l">>, emoji |-> "U+1F6E4.U+FE0F"],
    [key |-> <<"s", "u", "n", "n", "y">>, emoji |-> "U+2600.U+FE0F"],
    [key |-> <<"s", "u", "n">>, emoji |-> "U+2600.U+FE0F"],
    [key |-> <<"c", "l", "e", "a", "r">>, emoji |-> "U+2600.U+FE0F"],
    [key |-> <<"c", "l", "o", "u", "d", "y">>, emoji |-> "U+2601.U+FE0F"],
    [key |-> <<"c", "l", "o", "u", "d">>, emoji |-> "U+2601.U+FE0F"],
    [key |-> <<"o", "v", "e", "r", "c", "a", "s", "t">>, emoji |-> "U+2601.U+FE0F"],
    [key |-> <<"r", "a", "i", "n", "y">>, emoji |-> "U+1F327.U+FE0F"],
    [key |-> <<"r", "a", "i", "n">>, emoji |-> "U+1F327.U+FE0F"],
    [key |-> <<"p", "r", "e", "c", "i", "p", "i", "t", "a", "t", "i", "o", "n">>, emoji |-> "U+1F327.U+FE0F"],
    [key |-> <<"s", "n", "o", "w", "y">>, emoji |-> "U+2744.U+FE0F"],
    [key |-> <<"s", "n", "o", "w">>, emoji |-> "U+2744.U+FE0F"],
    [key |-> <<"w", "i", "n", "t", "e", "r">>, emoji |-> "U+2744.U+FE0F"],
    [key |-> <<"w", "i", "n", "d", "y">>, emoji |-> "U+1F4A8"],
    [key |-> <<"w", "i", "n", "d">>, emoji |-> "U+1F4A8"],
    [key |-> <<"b", "r", "e", "e", "z", "e">>, emoji |-> "U+1F4A8"],
    [key |-> <<"s", "t", "o", "r", "m">>, emoji |-> "U+26C8.U+FE0F"],
    [key |-> <<"t", "h", "u", "n", "d", "e", "r", "s", "t", "o", "r", "m">>, emoji |-> "U+26C8.U+FE0F"],
    [key |-> <<"l", "i", "g", "h", "t", "n", "i", "n", "g">>, emoji |-> "U+26C8.U+FE0F"],
    [key |-> <<"t", "i", "m", "e">>, emoji |-> "U+23F0"],
    [key |-> <<"c", "l", "o", "c", "k">>, emoji |-> "U+23F0"],
    [key |-> <<"h", "o", "u", "r">>, emoji |-> "U+23F0"],
    [key |-> <<"s", "c", "h", "e", "d", "u", "l", "e">>, emoji |-> "U+1F4C5"],
    [key |-> <<"c", "a", "l", "e", "n", "d", "a", "r">>, emoji |-> "U+1F4C5"],
    [key |-> <<"d", "a", "t", "e">>, emoji |-> "U+1F4C5"],
    [key |-> <<"o", "p", "e", "n">>, emoji |-> "U+1F7E2"],
    [key |-> <<"c", "l", "o", "s", "e", "d">>, emoji |-> "U+1F534"],
    [key |-> <<"a", "v", "a", "i", "l", "a", "b", "l", "e">>, emoji |-> "U+1F7E2"],
    [key |-> <<"b", "u", "s", "y">>, emoji |-> "U+1F534"],
    [key |-> <<"o", "c", "c", "u", "p", "i", "e", "d">>, emoji |-> "U+1F534"],
    [key |-> <<"f", "r", "e", "e">>, emoji |-> "U+1F193"],
    [key |-> <<"e", "x", "c", "e", "l", "l", "e", "n", "t">>, emoji |-> "U+2B50"],
    [key |-> <<"g", "o", "o", "d">>, emoji |-> "U+1F44D"],
    [key |-> <<"a", "v", "e", "r", "a", "g", "e">>, emoji |-> "U+1F536"],
    [key |-> <<"p", "o", "o", "r">>, emoji |-> "U+1F44E"],
    [key |-> <<"b", "a", "d">>, emoji |-> "U+1F44E"],
    [key |-> <<"t", "e", "r", "r", "i", "b", "l", "e">>, emoji |-> "U+1F44E"],
    [key |-> <<"r", "e", "c", "o", "m", "m", "e", "n", "d", "e", "d">>, emoji |-> "U+1F44D"],
    [key |-> <<"b", "e", "s", "t">>, emoji |-> "U+1F3C6"],
    [key |-> <<"w", "o", "r", "s", "t">>, emoji |-> "U+1F4A9"],
    [key |-> <<"a", "v", "o", "i", "d">>, emoji |-> "U+274C"],
    [key |-> <<"s", "k", "i", "p">>, emoji |-> "U+23ED.U+FE0F"],
    [key |-> <<"l", "a", "r", "g", "e">>, emoji |-> "U+1F535"],
    [key |-> <<"b", "i", "g">>, emoji |-> "U+1F535"],
    [key |-> <<"h", "u", "g", "e">>, emoji |-> "U+1F535"],
    [key |-> <<"s", "m", "a", "l", "l">>, emoji |-> "U+1F538"],
    [key |-> <<"t", "i", "n", "y">>, emoji |-> "U+1F538"],
    [key |-> <<"m", "i", "n", "i">>, emoji |-> "U+1F538"],
    [key |-> <<"m", "e", "d", "i", "u", "m">>, emoji |-> "U+1F7E1"],
    [key |-> <<"n", "o", "r", "m", "a", "l">>, emoji |-> "U+1F536"],
    [key |-> <<"m", "a", "n", "y">>, emoji |-> "U+1F522"],
    [key |-> <<"f", "e", "w">>, emoji |-> "U+1F522"],
    [key |-> <<"s", "e", "v", "e", "r", "a", "l">>, emoji |-> "U+1F522"],
    [key |-> <<"n", "e", "w">>, emoji |-> "U+1F195"],
    [key |-> <<"o", "l", "d">>, emoji |-> "U+1F195"],
    [key |-> <<"a", "n", "c", "i", "e", "n", "t">>, emoji |-> "U+1F195"],
    [key |-> <<"m", "o", "d", "e", "r", "n">>, emoji |-> "U+1F195"],
    [key |-> <<"c", "o", "n", "t", "e", "m", "p", "o", "r", "a", "r", "y">>, emoji |-> "U+1F195"],
    [key |-> <<"h", "i", "s", "t", "o", "r", "i", "c">>, emoji |-> "U+1F3DB.U+FE0F"],
    [key |-> <<"t", "e", "m", "p", "o", "r", "a", "r", "y">>, emoji |-> "U+23F3"],
    [key |-> <<"p", "e", "r", "m", "a", "n", "e", "n", "t">>, emoji |-> "U+267E.U+FE0F"],
    [key |-> <<"s", "e", "a", "s", "o", "n", "a", "l">>, emoji |-> "U+1F342"],
    [key |-> <<"y", "e", "a", "r", "_", "r", "o", "u", "n", "d">>, emoji |-> "U+267E.U+FE0F"],
    [key |-> <<"s", "u", "m", "m", "e", "r">>, emoji |-> "U+2600.U+FE0F"],
    [key |-> <<"u", "p">>, emoji |-> "U+2B06.U+FE0F"],
    [key |-> <<"d", "o", "w", "n">>, emoji |-> "U+2B07.U+FE0F"],
    [key |-> <<"l", "e", "f", "t">>, emoji |-> "U+2B05.U+FE0F"],
    [key |-> <<"r", "i", "g", "h", "t">>, emoji |-> "U+27A1.U+FE0F"],
    [key |-> <<"f", "o", "r", "w", "a", "r", "d">>, emoji |-> "U+2B06.U+FE0F"],
    [key |-> <<"b", "a", "c", "k", "w", "a", "r", "d">>, emoji |-> "U+2B07.U+FE0F"],
    [key |-> <<"s", "t", "r", "a", "i", "g", "h", "t">>, emoji |-> "U+2B06.U+FE0F"],
    [key |-> <<"t", "u", "r", "n">>, emoji |-> "U+21A9.U+FE0F"],
    [key |-> <<"c", "u", "r", "v", "e">>, emoji |-> "U+21A9.U+FE0F"],
    [key |-> <<"b", "e", "n", "d">>, emoji |-> "U+21A9.U+FE0F"],
    [key |-> <<"j", "u", "n", "c", "t", "i", "o", "n">>, emoji |-> "U+2795"],
    [key |-> <<"i", "n", "t", "e", "r", "s", "e", "c", "t", "i", "o", "n">>, emoji |-> "U+2795"],
    [key |-> <<"c", "r", "o", "s", "s", "i", "n", "g">>, emoji |-> "U+2795"],
    [key |-> <<"p", "a", "v", "e", "d">>, emoji |-> "U+1F6E3.U+FE0F"],
    [key |-> <<"u", "n", "p", "a", "v", "e", "d">>, emoji |-> "U+1F6E4.U+FE0F"],
    [key |-> <<"d", "i", "r", "t">>, emoji |-> "U+1F6E4.U+FE0F"],
    [key |-> <<"g", "r", "a", "v", "e", "l">>, emoji |-> "U+1F6E4.U+FE0F"],
    [key |-> <<"s", "a", "n", "d">>, emoji |-> "U+1F3D6.U+FE0F"],
    [key |-> <<"r", "o", "c", "k">>, emoji |-> "U+1FAA8"],
    [key |-> <<"m", "u", "d">>, emoji |-> "U+1F7E4"],
    [key |-> <<"w", "e", "t">>, emoji |-> "U+1F4A7"],
    [key |-> <<"d", "r", "y">>, emoji |-> "U+1F3DC.U+FE0F"],
    [key |-> <<"s", "m", "o", "o", "t", "h">>, emoji |-> "U+1F6E3.U+FE0F"],
    [key |-> <<"r", "o", "u", "g", "h">>, emoji |-> "U+1F6E4.U+FE0F"],
    [key |-> <<"b", "u", "m", "p", "y">>, emoji |-> "U+1F6E4.U+FE0F"],
    [key |-> <<"e", "a", "s", "y">>, emoji |-> "U+1F7E2"],
    [key |-> <<"h", "a", "r", "d">>, emoji |-> "U+1F534"],
    [key |-> <<"d", "i", "f", "f", "i", "c", "u", "l", "t">>, emoji |-> "U+1F534"],
    [key |-> <<"b", "e", "g", "i", "n", "n", "e", "r">>, emoji |-> "U+1F7E2"],
    [key |-> <<"i", "n", "t", "e", "r", "m", "e", "d", "i", "a", "t", "e">>, emoji |-> "U+1F7E1"],
    [key |-> <<"a", "d", "v", "a", "n", "c", "e", "d">>, emoji |-> "U+1F534"],
    [key |-> <<"e", "x", "p", "e", "r", "t">>, emoji |-> "U+1F534"],
    [key |-> <<"p", "r", "o", "f", "e", "s", "s", "i", "o", "n", "a", "l">>, emoji |-> "U+1F534"],
    [key |-> <<"a", "m", "a", "t", "e", "u", "r">>, emoji |-> "U+1F7E2"],
    [key |-> <<"f", "a", "m", "i", "l", "y">>, emoji |-> "U+1F468.U+200D.U+1F469.U+200D.U+1F467.U+200D.U+1F466"],
    [key |-> <<"c", "h", "i", "l", "d", "r", "e", "n">>, emoji |-> "U+1F476"],
    [key |-> <<"a", "d", "u", "l", "t">>, emoji |-> "U+1F464"],
    [key |-> <<"s", "a", "f", "e">>, emoji |-> "U+2705"],
    [key |-> <<"u", "n", "s", "a", "f", "e">>, emoji |-> "U+274C"],
    [key |-> <<"d", "a", "n", "g", "e", "r", "o", "u", "s">>, emoji |-> "U+26A0.U+FE0F"],
    [key |-> <<"r", "e", "s", "t", "r", "i", "c", "t", "e", "d">>, emoji |-> "U+1F6AB"],
    [key |-> <<"f", "o", "r", "b", "i", "d", "d", "e", "n">>, emoji |-> "U+1F6AB"],
    [key |-> <<"p", "r", "o", "h", "i", "b", "i", "t", "e", "d">>, emoji |-> "U+1F6AB"],
    [key |-> <<"a", "l", "l", "o", "w", "e", "d">>, emoji |-> "U+2705"],
    [key |-> <<"p", "e", "r", "m", "i", "t", "t", "e", "d">>, emoji |-> "U+2705"],
    [key |-> <<"l", "e", "g", "a", "l">>, emoji |-> "U+2705"],
    [key |-> <<"i", "l", "l", "e", "g", "a", "l">>, emoji |-> "U+274C"],
    [key |-> <<"p", "r", "i", "v", "a", "t", "e">>, emoji |-> "U+1F512"],
    [key |-> <<"p", "u", "b", "l", "i", "c">>, emoji |-> "U+1F513"],
    [key |-> <<"p", "a", "i", "d">>, emoji |-> "U+1F4B0"],
    [key |-> <<"e", "x", "p", "e", "n", "s", "i", "v", "e">>, emoji |-> "U+1F4B8"],
    [key |-> <<"c", "h", "e", "a", "p">>, emoji |-> "U+1F4B5"],
    [key |-> <<"a", "f", "f", "o", "r", "d", "a", "b", "l", "e">>, emoji |-> "U+1F4B5"],
    [key |-> <<"b", "u", "d", "g", "e", "t">>, emoji |-> "U+1F4B5"],
    [key |-> <<"l", "u", "x", "u", "r", "y">>, emoji |-> "U+1F48E"],
    [key |-> <<"p", "r", "e", "m", "i", "u", "m">>, emoji |-> "U+1F48E"],
    [key |-> <<"d", "e", "l", "u", "x", "e">>, emoji |-> "U+1F48E"],
    [key |-> <<"d", "i", "s", "c", "o", "u", "n", "t">>, emoji |-> "U+1F3F7.U+FE0F"],
    [key |-> <<"s", "a", "l", "e">>, emoji |-> "U+1F3F7.U+FE0F"],
    [key |-> <<"o", "f", "f", "e", "r">>, emoji |-> "U+1F3F7.U+FE0F"]
>>

\* the glyph returned when nothing matches
DefaultEmoji == "U+1F4CD"

\* index of the first item of icon_mapping among those that pass a test, given
\* as the set of their indices; 0 if none passes
first_item(passing) ==
    IF passing = {} THEN 0 ELSE CHOOSE i \in passing : \A j \in passing : i <= j

\* icon.lower().replace('_', ' ').replace('-', ' ').replace(',', ' ')
icon_clean(icon) ==
    str_replace(str_replace(str_replace(str_lower(icon), "_", " "), "-", " "), ",", " ")

\* the loop over the items for the icon: 0 when the loop ends without a return
icon_pass(icon) ==
    IF icon \in {NoStr, <<>>} THEN 0
    ELSE LET clean == icon_clean(icon)
         IN first_item({i \in 1..Len(icon_mapping) :
                           \/ str_contains(icon_mapping[i].key, clean)
                           \/ str_contains(clean, icon_mapping[i].key)})

\* the loop over the words of the name, and for each word over the items
name_pass(waypoint_name) ==
    IF waypoint_name \in {NoStr, <<>>} THEN 0
    ELSE LET name_words == str_split(str_lower(waypoint_name))
             hit(word) ==
                 LET clean_word == SelectSeq(word, isalnum)
                 IN first_item({i \in 1..Len(icon_mapping) :
                                   \/ clean_word = icon_mapping[i].key
                                   \/ str_contains(icon_mapping[i].key, clean_word)})
             W == {k \in 1..Len(name_words) : hit(name_words[k]) # 0}
         IN IF W = {} THEN 0
            ELSE hit(name_words[CHOOSE k \in W : \A j \in W : k <= j])

\* one pass over the icon followed by the name, then the name's words
get_emoji_for_icon_combined(icon, waypoint_name) ==
    LET text(s) == IF s = NoStr THEN <<>> ELSE s
        both == text(icon) \o text(waypoint_name)
    IN IF icon_pass(both) # 0 THEN icon_mapping[icon_pass(both)].emoji
       ELSE IF name_pass(waypoint_name) # 0 THEN icon_mapping[name_pass(waypoint_name)].emoji
       ELSE DefaultEmoji

\* the name's words before the icon
get_emoji_for_icon_name_first(icon, waypoint_name) ==
    IF name_pass(waypoint_name) # 0 THEN icon_mapping[name_pass(waypoint_name)].emoji
    ELSE IF icon_pass(icon) # 0 THEN icon_mapping[icon_pass(icon)].emoji
    ELSE DefaultEmoji

get_emoji_for_icon(icon, waypoint_name) ==
    IF icon_pass(icon) # 0 THEN icon_mapping[icon_pass(icon)].emoji
    ELSE IF name_pass(waypoint_name) # 0 THEN icon_mapping[name_pass(waypoint_name)].emoji
    ELSE DefaultEmoji

\* icons of waypoints: none, empty, keywords, capitals, separators, a single
\* letter, an unknown word
IconInputs == {
    NoStr,
    <<>>,
    <<"r", "e", "s", "t", "a", "u", "r", "a", "n", "t">>,
    <<"R", "e", "s", "t", "a", "u", "r", "a", "n", "t">>,
    <<"m", "u", "s", "e", "u", "m">>,
    <<"T", "o", "u", "r", "i", "s", "m", "_", "M", "u", "s", "e", "u", "m">>,
    <<"a">>,
    <<"x", "y", "z">>,
    <<"c", "a", "f", "e", ",", "b", "a", "r">>,
    <<"s", "p", "e", "c", "i", "a", "l", "-", "p", "a", "r", "k", "i", "n", "g">>
}

\* names of waypoints: none, empty, one or several words, punctuation
NameInputs == {
    NoStr,
    <<>>,
    <<"r", "e", "s", "t", "a", "u", "r", "a", "n", "t">>,
    <<"L", "o", "u", "v", "r", "e">>,
    <<"L", "e", " ", "C", "a", "f", "U+00E9", " ", "d", "u", " ", "p", "a", "r", "c">>,
    <<"B", "a", "r", "-", "t", "a", "b", "a", "c">>,
    <<"M", "u", "s", "e", "u", "m", "!">>,
    <<"p", "u", "b", " ", "b", "a", "r">>,
    <<"b", "a", "r", " ", "r", "e", "s", "t", "a", "u", "r", "a", "n", "t">>,
    <<"x", "y", "z">>,
    <<"g", "a", "r", "e", " ", "d", "u", " ", "n", "o", "r", "d">>
}

\* the glyph for the icon and the name, and the glyph for the icon with the
\* default name
ResolveEmoji ==
    /\ emoji_call.stage = "ready"
    /\ emoji_call' = [emoji_call EXCEPT
          !.stage = "done",
          !.emoji = get_emoji_for_icon(emoji_call.icon, emoji_call.waypoint_name),
          !.emoji_noname = get_emoji_for_icon(emoji_call.icon, <<>>)]
    /\ UNCHANGED <<broken, uiVars, aggVars, gainVars>>
    /\ UNCHANGED <<icon_call, color_call, profile_call, map_call, cli, render_call>>

InitEmoji ==
    /\ broken = {}
    /\ InitUiVars
    /\ InitAggVars
    /\ InitGainVars
    /\ InitIconVars
    /\ emoji_call \in [stage : {"ready"}, icon : IconInputs, waypoint_name : NameInputs,
                       emoji : {DefaultEmoji}, emoji_noname : {DefaultEmoji}]
    /\ InitColorVars
    /\ InitProfileVars
    /\ InitMapVars
    /\ InitCliVars
    /\ InitRenderVars

NextEmoji == ResolveEmoji

SpecEmoji == InitEmoji /\ [][NextEmoji]_vars

-----------------------------------------------------------------------------
(* get_folder_colors and get_gpx_colors applied to collections *)

\* Paths are compared as Python compares str: character by character, by code
\* point; here a path is the sequence of its characters.

\* the characters of the paths in increasing code point
CodePoints == <<"-", ".", "/", "0", "1", "2", "3", "4", "5", "6", "7", "8", "9", "A", "B", "C", "D", "E", "F", "G", "H", "I", "J", "K", "L", "M", "N", "O", "P", "Q", "R", "S", "T", "U", "V", "W", "X", "Y", "Z", "_", "a", "b", "c", "d", "e", "f", "g", "h", "i", "j", "k", "l", "m", "n", "o", "p", "q", "r", "s", "t", "u", "v", "w", "x", "y", "z">>

ord(c) == CHOOSE i \in 1..Len(CodePoints) : CodePoints[i] = c

\* a < b on str
str_lt(a, b) ==
    \E k \in 1..Len(b) :
        /\ k <= Len(a) + 1
        /\ SubSeq(a, 1, k - 1) = SubSeq(b, 1, k - 1)
        /\ (k = Len(a) + 1 \/ ord(a[k]) < ord(b[k]))

RECURSIVE sorted(_)
\* sorted(a set of str)
sorted(S) ==
    IF S = {} THEN <<>>
    ELSE LET least == CHOOSE x \in S : \A y \in S : x = y \/ str_lt(x, y)
         IN <<least>> \o sorted(S \ {least})

folder_palette == <<"blue", "green", "red", "orange", "purple",
                    "darkred", "cadetblue", "darkgreen", "darkblue", "pink">>

gpx_palette == <<"blue", "green", "red", "orange", "purple",
                 "darkred", "lightred", "beige", "darkblue", "darkgreen",
                 "cadetblue", "darkpurple", "white", "pink", "lightblue",
                 "lightgreen", "gray", "black", "lightgray", "darkorange",
                 "lime", "teal", "navy", "maroon", "olive", "aqua", "fuchsia">>

\* {x: colors[i % len(colors)] for i, x in enumerate(order)}
color_dict(order, colors) ==
    [x \in {order[k] : k \in 1..Len(order)} |->
        LET i == (CHOOSE k \in 1..Len(order) : order[k] = x) - 1
        IN colors[(i % Len(colors)) + 1]]

\* the distinct values of a sequence in the order of their first occurrence
first_occurrences(values) ==
    LET F[k \in 0..Len(values)] ==
            IF k = 0 THEN <<>>
            ELSE LET prev == F[k - 1]
                 IN IF In(values[k], prev) THEN prev ELSE Append(prev, values[k])
    IN F[Len(values)]

folder_paths(st) ==
    [k \in 1..Len(st.tracks) |-> st.tracks[k].folder_path]
        \o [k \in 1..Len(st.routes) |-> st.routes[k].folder_path]
        \o [k \in 1..Len(st.waypoints) |-> st.waypoints[k].folder_path]

file_paths(st) ==
    [k \in 1..Len(st.tracks) |-> st.tracks[k].file_path]
        \o [k \in 1..Len(st.routes) |-> st.routes[k].file_path]
        \o [k \in 1..Len(st.waypoints) |-> st.waypoints[k].file_path]

\* colors given in the order in which the folders were added, without sorting
get_folder_colors_unsorted(st) ==
    color_dict(first_occurrences(folder_paths(st)), folder_palette)

get_folder_colors(st) ==
    LET paths == folder_paths(st)
        all_folders == {paths[k] : k \in 1..Len(paths)}
    IN color_dict(sorted(all_folders), folder_palette)

get_gpx_colors(st) ==
    LET paths == file_paths(st)
        all_gpx_files == {paths[k] : k \in 1..Len(paths)}
    IN color_dict(sorted(all_gpx_files), gpx_palette)

\* records of files in folders whose names differ by case, digits, separators
\* and depth, in no particular order
ColorRecords == <<
    [folder_path |-> <<"R", "/", "A">>,
     file_path |-> <<"R", "/", "A", "/", "a", ".", "g", "p", "x">>],
    [folder_path |-> <<"R", "/", "A", "-", "1">>,
     file_path |-> <<"R", "/", "A", "-", "1", "/", "Z", ".", "g", "p", "x">>],
    [folder_path |-> <<"R", "/", "B">>,
     file_path |-> <<"R", "/", "B", "/", "1", "0", ".", "g", "p", "x">>],
    [folder_path |-> <<"R", "/", "A", "l", "p", "e", "s">>,
     file_path |-> <<"R", "/", "A", "l", "p", "e", "s", "/", "a", ".", "g", "p", "x">>],
    [folder_path |-> <<"R", "/", "A", "_", "2">>,
     file_path |-> <<"R", "/", "A", "_", "2", "/", "Z", ".", "g", "p", "x">>],
    [folder_path |-> <<"R", "/", "Z">>,
     file_path |-> <<"R", "/", "Z", "/", "1", "0", ".", "g", "p", "x">>],
    [folder_path |-> <<"R", "/", "A", "-", "1">>,
     file_path |-> <<"R", "/", "A", "-", "1", "/", "a", ".", "g", "p", "x">>],
    [folder_path |-> <<"R", "/", "B">>,
     file_path |-> <<"R", "/", "B", "/", "Z", ".", "g", "p", "x">>],
    [folder_path |-> <<"R", "/", "9">>,
     file_path |-> <<"R", "/", "9", "/", "1", "0", ".", "g", "p", "x">>],
    [folder_path |-> <<"R", "/", "A", "_", "2">>,
     file_path |-> <<"R", "/", "A", "_", "2", "/", "a", ".", "g", "p", "x">>],
    [folder_path |-> <<"R", "/", "Z">>,
     file_path |-> <<"R", "/", "Z", "/", "Z", ".", "g", "p", "x">>],
    [folder_path |-> <<"R", "/", "A", "/", "B">>,
     file_path |-> <<"R", "/", "A", "/", "B", "/", "1", "0", ".", "g", "p", "x">>],
    [folder_path |-> <<"R", "/", "B">>,
     file_path |-> <<"R", "/", "B", "/", "a", ".", "g", "p", "x">>],
    [folder_path |-> <<"R", "/", "9">>,
     file_path |-> <<"R", "/", "9", "/", "Z", ".", "g", "p", "x">>],
    [folder_path |-> <<"R", "/", "a", "l", "p", "e", "s">>,
     file_path |-> <<"R", "/", "a", "l", "p", "e", "s", "/", "1", "0", ".", "g", "p", "x">>],
    [folder_path |-> <<"R", "/", "Z">>,
     file_path |-> <<"R", "/", "Z", "/", "a", ".", "g", "p", "x">>],
    [folder_path |-> <<"R", "/", "A", "/", "B">>,
     file_path |-> <<"R", "/", "A", "/", "B", "/", "Z", ".", "g", "p", "x">>],
    [folder_path |-> <<"R", "/", "a">>,
     file_path |-> <<"R", "/", "a", "/", "1", "0", ".", "g", "p", "x">>],
    [folder_path |-> <<"R", "/", "9">>,
     file_path |-> <<"R", "/", "9", "/", "a", ".", "g", "p", "x">>],
    [folder_path |-> <<"R", "/", "a", "l", "p", "e", "s">>,
     file_path |-> <<"R", "/", "a", "l", "p", "e", "s", "/", "Z", ".", "g", "p", "x">>],
    [folder_path |-> <<"R", "/", "2", "0", "2", "4">>,
     file_path |-> <<"R", "/", "2", "0", "2", "4", "/", "1", "0", ".", "g", "p", "x">>],
    [folder_path |-> <<"R", "/", "A", "/", "B">>,
     file_path |-> <<"R", "/", "A", "/", "B", "/", "a", ".", "g", "p", "x">>],
    [folder_path |-> <<"R", "/", "a">>,
     file_path |-> <<"R", "/", "a", "/", "Z", ".", "g", "p", "x">>],
    [folder_path |-> <<"R", "/", "1", "0">>,
     file_path |-> <<"R", "/", "1", "0", "/", "1", "0", ".", "g", "p", "x">>],
    [folder_path |-> <<"R", "/", "a", "l", "p", "e", "s">>,
     file_path |-> <<"R", "/", "a", "l", "p", "e", "s", "/", "a", ".", "g", "p", "x">>],
    [folder_path |-> <<"R", "/", "2", "0", "2", "4">>,
     file_path |-> <<"R", "/", "2", "0", "2", "4", "/", "Z", ".", "g", "p", "x">>],
    [folder_path |-> <<"R", "/", "A">>,
     file_path |-> <<"R", "/", "A", "/", "1", "0", ".", "g", "p", "x">>],
    [folder_path |-> <<"R", "/", "a">>,
     file_path |-> <<"R", "/", "a", "/", "a", ".", "g", "p", "x">>],
    [folder_path |-> <<"R", "/", "1", "0">>,
     file_path |-> <<"R", "/", "1", "0", "/", "Z", ".", "g", "p", "x">>],
    [folder_path |-> <<"R", "/", "A", "l", "p", "e", "s">>,
     file_path |-> <<"R", "/", "A", "l", "p", "e", "s", "/", "1", "0", ".", "g", "p", "x">>],
    [folder_path |-> <<"R", "/", "2", "0", "2", "4">>,
     file_path |-> <<"R", "/", "2", "0", "2", "4", "/", "a", ".", "g", "p", "x">>],
    [folder_path |-> <<"R", "/", "A">>,
     file_path |-> <<"R", "/", "A", "/", "Z", ".", "g", "p", "x">>],
    [folder_path |-> <<"R", "/", "A", "-", "1">>,
     file_path |-> <<"R", "/", "A", "-", "1", "/", "1", "0", ".", "g", "p", "x">>],
    [folder_path |-> <<"R", "/", "1", "0">>,
     file_path |-> <<"R", "/", "1", "0", "/", "a", ".", "g", "p", "x">>],
    [folder_path |-> <<"R", "/", "A", "l", "p", "e", "s">>,
     file_path |-> <<"R", "/", "A", "l", "p", "e", "s", "/", "Z", ".", "g", "p", "x">>],
    [folder_path |-> <<"R", "/", "A", "_", "2">>,
     file_path |-> <<"R", "/", "A", "_", "2", "/", "1", "0", ".", "g", "p", "x">>]
>>

\* ways of filling a processor with a list of records
Arrangements == {"tracks in order", "waypoints in reverse", "dealt and repeated"}

Arrange(how, records) ==
    LET n == Len(records)
        every_third(r) == Flatten([k \in 1..n |-> IF k % 3 = r THEN <<records[k]>> ELSE <<>>])
        dealt(r) == every_third(r) \o every_third(r)
    IN IF how = "tracks in order"
       THEN [tracks |-> records, routes |-> <<>>, waypoints |-> <<>>]
       ELSE IF how = "waypoints in reverse"
       THEN [tracks |-> <<>>, routes |-> <<>>,
             waypoints |-> [k \in 1..n |-> records[n + 1 - k]]]
       ELSE [tracks |-> dealt(2), routes |-> dealt(0), waypoints |-> dealt(1)]

GetFolderColors ==
    /\ color_call.stage = "ready"
    /\ ~color_call.folders_done
    /\ color_call' = [color_call EXCEPT
          !.folders_done = TRUE,
          !.folder_colors = <<get_folder_colors(color_call.first),
                              get_folder_colors(color_call.second)>>]
    /\ UNCHANGED <<broken, uiVars, aggVars, gainVars>>
    /\ UNCHANGED <<icon_call, emoji_call, profile_call, map_call, cli, render_call>>

GetGpxColors ==
    /\ color_call.stage = "ready"
    /\ ~color_call.files_done
    /\ color_call' = [color_call EXCEPT
          !.files_done = TRUE,
          !.gpx_colors = <<get_gpx_colors(color_call.first),
                           get_gpx_colors(color_call.second)>>]
    /\ UNCHANGED <<broken, uiVars, aggVars, gainVars>>
    /\ UNCHANGED <<icon_call, emoji_call, profile_call, map_call, cli, render_call>>

\* two processors filled with the same records, each in its own way
InitColor ==
    /\ broken = {}
    /\ InitUiVars
    /\ InitAggVars
    /\ InitGainVars
    /\ InitIconVars
    /\ InitEmojiVars
    /\ \E n \in 0..Len(ColorRecords), how1 \in Arrangements, how2 \in Arrangements :
          color_call = [stage |-> "ready",
                        first |-> Arrange(how1, SubSeq(ColorRecords, 1, n)),
                        second |-> Arrange(how2, SubSeq(ColorRecords, 1, n)),
                        folders_done |-> FALSE, files_done |-> FALSE,
                        folder_colors |-> <<>>, gpx_colors |-> <<>>]
    /\ InitProfileVars
    /\ InitMapVars
    /\ InitCliVars
    /\ InitRenderVars

NextColor ==
    \/ GetFolderColors
    \/ GetGpxColors

SpecColor == InitColor /\ [][NextColor]_vars

-----------------------------------------------------------------------------
(* calculate_elevation_profile_from_gpx applied to GPX files *)

MaxTracks == 2

MaxSegs == 2

MaxSegPts == 2

\* track points on a line: an elevation or none, and a position in km
ProfilePoints == {[elevation |-> <<100>>, km |-> 0], [elevation |-> <<>>, km |-> 3]}

ProfileSegments == UNION {[1..n -> ProfilePoints] : n \in 0..MaxSegPts}

ProfileTracks == UNION {[1..n -> ProfileSegments] : n \in 0..MaxSegs}

ProfileDocs == UNION {[1..n -> ProfileTracks] : n \in 0..MaxTracks}

\* what open and gpxpy.parse give for a path: an exception, or a document
ProfileFiles ==
    {[ok |-> FALSE, tracks |-> <<>>]} \cup {[ok |-> TRUE, tracks |-> t] : t \in ProfileDocs}

\* prev_point.distance_2d(point) / 1000
distance_km(prev_point, point) ==
    IF point.km >= prev_point.km THEN point.km - prev_point.km
    ELSE prev_point.km - point.km

\* the loop over the points of one segment
profile_segment(lists, seg_points) ==
    LET F[i \in 0..Len(seg_points)] ==
            IF i = 0 THEN lists
            ELSE LET prev == F[i - 1]
                     point == seg_points[i]
                     elevation == IF point.elevation # <<>> THEN point.elevation[1] ELSE 0
                 IN [elevations |-> Append(prev.elevations, elevation),
                     distances |->
                        \* enumerate counts from 0: every point but the segment's first
                        IF i > 1
                        THEN Append(prev.distances,
                                    prev.distances[Len(prev.distances)]
                                        + distance_km(seg_points[i - 1], point))
                        ELSE prev.distances]
    IN F[Len(seg_points)]

calculate_elevation_profile_from_gpx(gpx_file) ==
    IF ~gpx_file.ok THEN [distances |-> <<>>, elevations |-> <<>>]
    ELSE LET segs == Flatten(gpx_file.tracks)
             F[k \in 0..Len(segs)] ==
                 IF k = 0 THEN [distances |-> <<0>>, elevations |-> <<>>]
                 ELSE profile_segment(F[k - 1], segs[k])
         IN F[Len(segs)]

\* create_elevation_chart: the annotated empty figure, or the plot
create_elevation_chart(gpx_file) ==
    LET profile == calculate_elevation_profile_from_gpx(gpx_file)
    IN IF profile.distances = <<>> \/ profile.elevations = <<>>
       THEN "no data" ELSE "scatter"

ComputeProfile ==
    /\ profile_call.stage = "ready"
    /\ profile_call' = [profile_call EXCEPT
          !.stage = "done",
          !.profile = calculate_elevation_profile_from_gpx(profile_call.gpx_file),
          !.chart = create_elevation_chart(profile_call.gpx_file)]
    /\ UNCHANGED <<broken, uiVars, aggVars, gainVars>>
    /\ UNCHANGED <<icon_call, emoji_call, color_call, map_call, cli, render_call>>

InitProfile ==
    /\ broken = {}
    /\ InitUiVars
    /\ InitAggVars
    /\ InitGainVars
    /\ InitIconVars
    /\ InitEmojiVars
    /\ InitColorVars
    /\ profile_call \in [stage : {"ready"}, gpx_file : ProfileFiles,
                         profile : {[distances |-> <<>>, elevations |-> <<>>]},
                         chart : {"none"}]
    /\ InitMapVars
    /\ InitCliVars
    /\ InitRenderVars

NextProfile == ComputeProfile

SpecProfile == InitProfile /\ [][NextProfile]_vars

-----------------------------------------------------------------------------
(* create_map applied to a processor's collections, a search and a geocoder *)

MaxRecs == 2

\* zoom passed to folium.Map when the search location was geocoded
RegionalZoom == 8

\* zoom passed to folium.Map otherwise
CountryZoom == 6

LatLon(lat, lon) == [latitude |-> lat, longitude |-> lon]

\* the records a processor holds: tracks and routes always have points
MapTracks == {[points |-> <<LatLon(45, 6)>>], [points |-> <<LatLon(48, 2), LatLon(45, 6)>>]}

MapRoutes == {[points |-> <<LatLon(44, 1), LatLon(48, 2)>>]}

MapWaypoints == {[waypoint |-> LatLon(43, 5)], [waypoint |-> LatLon(0, 0)]}

ListsOf(S) == UNION {[1..n -> S] : n \in 0..MaxRecs}

MapProcessors == [tracks : ListsOf(MapTracks), routes : ListsOf(MapRoutes),
                  waypoints : ListsOf(MapWaypoints)]

\* search_location: the default None, an empty input, a place name
SearchLocations == {None, "", "Annecy"}

\* what requests.get does: it raises (timeout, no connection) or it returns a
\* response with a status code and a JSON list; an item may lack its 'lat'
GeocoderReplies ==
    {[raises |-> TRUE, status_code |-> 0, data |-> <<>>]}
        \cup {[raises |-> FALSE, status_code |-> s, data |-> d] :
                s \in {200, 503},
                d \in {<<>>, <<[lat |-> <<46>>, lon |-> <<6>>]>>,
                       <<[lat |-> <<0>>, lon |-> <<0>>]>>,
                       <<[lat |-> <<>>, lon |-> <<6>>]>>}}

\* <<>> for None, else <<(lat, lon)>>
geocode_location(location, reply) ==
    IF reply.raises THEN <<>>
    ELSE IF reply.status_code = 200 /\ reply.data # <<>>
    THEN \* data[0]['lat'] raises KeyError on an item without it
         IF reply.data[1].lat = <<>> THEN <<>>
         ELSE <<LatLon(reply.data[1].lat[1], reply.data[1].lon[1])>>
    ELSE <<>>

\* the waypoints are scanned before the tracks and the routes
get_center_point_waypoints_first(st) ==
    LET all_points == [i \in 1..Len(st.waypoints) |-> st.waypoints[i].waypoint]
                          \o [i \in 1..Len(st.tracks) |-> st.tracks[i].points[1]]
                          \o [i \in 1..Len(st.routes) |-> st.routes[i].points[1]]
    IN IF all_points # <<>> THEN all_points[1] ELSE LatLon(0, 0)

get_center_point(st) ==
    LET of(records) == Flatten([i \in 1..Len(records) |->
                           IF records[i].points # <<>> THEN <<records[i].points[1]>>
                           ELSE <<>>])
        all_points == of(st.tracks) \o of(st.routes)
                          \o [i \in 1..Len(st.waypoints) |-> st.waypoints[i].waypoint]
    IN IF all_points # <<>> THEN all_points[1] ELSE LatLon(0, 0)

\* the location and zoom_start given to folium.Map
create_map(st, search_location, reply) ==
    IF search_location # None /\ search_location # ""
    THEN LET coords == geocode_location(search_location, reply)
         IN IF coords # <<>>
            THEN [location |-> coords[1], zoom_start |-> RegionalZoom]
            ELSE [location |-> get_center_point(st), zoom_start |-> CountryZoom]
    ELSE [location |-> get_center_point(st), zoom_start |-> CountryZoom]

CreateMap ==
    /\ map_call.stage = "ready"
    /\ map_call' = [map_call EXCEPT
          !.stage = "done",
          !.map = create_map(map_call.processor, map_call.search_location, map_call.reply)]
    /\ UNCHANGED <<broken, uiVars, aggVars, gainVars>>
    /\ UNCHANGED <<icon_call, emoji_call, color_call, profile_call, cli, render_call>>

InitMap ==
    /\ broken = {}
    /\ InitUiVars
    /\ InitAggVars
    /\ InitGainVars
    /\ InitIconVars
    /\ InitEmojiVars
    /\ InitColorVars
    /\ InitProfileVars
    /\ map_call \in [stage : {"ready"}, processor : MapProcessors,
                     search_location : SearchLocations, reply : GeocoderReplies,
                     map : {[location |-> LatLon(0, 0), zoom_start |-> 0]}]
    /\ InitCliVars
    /\ InitRenderVars

NextMap == CreateMap

SpecMap == InitMap /\ [][NextMap]_vars

-----------------------------------------------------------------------------
(* GPXApp.run_cli on folder lists *)

\* the folders given on the command line: folders of the disk, with or without
\* GPX files of their own, and a missing one
CliFolderChoices == {pR, pA, pB, pC, pE, pX}

CliFolderLists == UNION {[1..n -> CliFolderChoices] : n \in 0..MaxFolders}

\* the lines generate_csv writes: the header, then one line per record shown
generate_csv(st, show_tracks, show_routes, show_wpts) ==
    <<"header">>
        \o (IF show_tracks THEN [i \in 1..Len(st.tracks) |-> "track"] ELSE <<>>)
        \o (IF show_routes THEN [i \in 1..Len(st.routes) |-> "route"] ELSE <<>>)
        \o (IF show_wpts THEN [i \in 1..Len(st.waypoints) |-> "waypoint"] ELSE <<>>)

\* run_cli without the test of the collections
run_cli_always_writes(folders, show_tracks, show_routes, show_wpts) ==
    LET st == process_folders(NewProcessor, folders)
    IN [processor |-> st, code |-> 0, map_saved |-> TRUE,
        csv |-> <<generate_csv(st, show_tracks, show_routes, show_wpts)>>,
        stdout |-> <<"[INFO] Carte", "[INFO] CSV">>]

\* run_cli on a new GPXApp; map_out and csv_out are writable. csv is <<>> when
\* no file was written, else <<its lines>>
run_cli(folders, show_tracks, show_routes, show_wpts) ==
    LET st == process_folders(NewProcessor, folders)
    IN IF st.tracks = <<>> /\ st.routes = <<>> /\ st.waypoints = <<>>
       THEN [processor |-> st, code |-> 1, map_saved |-> FALSE, csv |-> <<>>,
             stdout |-> <<"[WARN] Aucun fichier GPX">>]
       ELSE [processor |-> st, code |-> 0, map_saved |-> TRUE,
             csv |-> <<generate_csv(st, show_tracks, show_routes, show_wpts)>>,
             stdout |-> <<"[INFO] Carte", "[INFO] CSV">>]

RunCli ==
    /\ cli.stage = "ready"
    /\ cli' = [cli EXCEPT
          !.stage = "done",
          !.run = run_cli(cli.folders, cli.show_tracks, cli.show_routes, cli.show_wpts)]
    /\ UNCHANGED <<broken, uiVars, aggVars, gainVars>>
    /\ UNCHANGED <<icon_call, emoji_call, color_call, profile_call, map_call, render_call>>

InitCli ==
    /\ broken \in SUBSET Corruptible
    /\ InitUiVars
    /\ InitAggVars
    /\ InitGainVars
    /\ InitIconVars
    /\ InitEmojiVars
    /\ InitColorVars
    /\ InitProfileVars
    /\ InitMapVars
    /\ cli \in [stage : {"ready"}, folders : CliFolderLists,
                show_tracks : BOOLEAN, show_routes : BOOLEAN, show_wpts : BOOLEAN,
                run : {[processor |-> NewProcessor, code |-> 0, map_saved |-> FALSE,
                        csv |-> <<>>, stdout |-> <<>>]}]
    /\ InitRenderVars

NextCli == RunCli

SpecCli == InitCli /\ [][NextCli]_vars

-----------------------------------------------------------------------------
(* render_tree applied to a tree, a value for each checkbox, and a list *)

RECURSIVE render_tree_values_closed(_, _, _)
\* the children are rendered only under a checked box
render_tree_values_closed(t, sel, values) ==
    LET checked == values[t.path]
        s1 == IF checked /\ ~In(t.path, sel) THEN check_branch(t, sel)
              ELSE IF ~checked /\ In(t.path, sel) THEN uncheck_branch(t, sel)
              ELSE sel
        F[i \in 0..Len(t.children)] ==
            IF i = 0 THEN s1
            ELSE render_tree_values_closed(t.children[i], F[i - 1], values)
    IN IF checked THEN post_pass(t, F[Len(t.children)]) ELSE s1

RECURSIVE render_tree_values(_, _, _)
\* render_tree when st.sidebar.checkbox returns, for each key, the value given
render_tree_values(t, sel, values) ==
    LET checked == values[t.path]
        s1 == IF checked /\ ~In(t.path, sel) THEN check_branch(t, sel)
              ELSE IF ~checked /\ In(t.path, sel) THEN uncheck_branch(t, sel)
              ELSE sel
        F[i \in 0..Len(t.children)] ==
            IF i = 0 THEN s1 ELSE render_tree_values(t.children[i], F[i - 1], values)
    IN post_pass(t, F[Len(t.children)])

\* the trees of the disk
RenderTrees == {build_tree(pR), build_tree(pA), build_tree(pB)}

RECURSIVE PathList(_)
\* the paths of a tree, each folder before its children
PathList(t) == <<t.path>> \o Flatten([i \in 1..Len(t.children) |-> PathList(t.children[i])])

\* a set of paths of the tree as a list, in the order of the tree or in the
\* opposite order
ListFrom(t, paths, backwards) ==
    LET forward == SelectSeq(PathList(t), LAMBDA p : p \in paths)
    IN IF backwards THEN [i \in 1..Len(forward) |-> forward[Len(forward) + 1 - i]]
       ELSE forward

\* the pass run from each of the two lists
RenderPass ==
    /\ render_call.stage = "ready"
    /\ render_call' = [render_call EXCEPT
          !.stage = "done",
          !.results = <<render_tree_values(render_call.tree, render_call.first,
                                           render_call.values),
                        render_tree_values(render_call.tree, render_call.second,
                                           render_call.values)>>]
    /\ UNCHANGED <<broken, uiVars, aggVars, gainVars>>
    /\ UNCHANGED <<icon_call, emoji_call, color_call, profile_call, map_call, cli>>

\* the pass run once more on its own result, the checkboxes unchanged
RenderAgain ==
    /\ render_call.stage = "done"
    /\ render_call' = [render_call EXCEPT
          !.stage = "again",
          !.again = render_tree_values(render_call.tree, render_call.results[1],
                                       render_call.values)]
    /\ UNCHANGED <<broken, uiVars, aggVars, gainVars>>
    /\ UNCHANGED <<icon_call, emoji_call, color_call, profile_call, map_call, cli>>

InitRender ==
    /\ broken = {}
    /\ InitUiVars
    /\ InitAggVars
    /\ InitGainVars
    /\ InitIconVars
    /\ InitEmojiVars
    /\ InitColorVars
    /\ InitProfileVars
    /\ InitMapVars
    /\ InitCliVars
    /\ \E t \in RenderTrees :
          \E values \in [TreePaths(t) -> BOOLEAN],
             first \in SUBSET TreePaths(t), second \in SUBSET TreePaths(t) :
                render_call = [stage |-> "ready", tree |-> t, values |-> values,
                               first |-> ListFrom(t, first, FALSE),
                               second |-> ListFrom(t, second, TRUE),
                               results |-> <<>>, again |-> <<>>]

NextRender ==
    \/ RenderPass
    \/ RenderAgain

SpecRender == InitRender /\ [][NextRender]_vars

-----------------------------------------------------------------------------
(* Properties of the selection (Spec) *)

RECURSIVE TreeNodes(_)
\* the nodes (dicts) of a tree
TreeNodes(t) == {t} \cup UNION {TreeNodes(t.children[i]) : i \in 1..Len(t.children)}

SessionNodes == IF tree = <<>> THEN {} ELSE TreeNodes(tree[1])

Selected(path) == \E i \in 1..Len(selected) : selected[i] = path

\* the paths strictly below node n
Below(n) == TreePaths(n) \ {n.path}

\* C1 as stated: after each toggle, every selected folder that has children has
\* at least one of its direct children selected
C1_DirectChildSelected ==
    last.op = "toggle" =>
        \A n \in SessionNodes :
            (Selected(n.path) /\ n.children # <<>>) =>
                \E i \in 1..Len(n.children) : Selected(n.children[i].path)

\* C1 amended: after each toggle, every selected folder that has children has
\* at least one descendant (at any depth) selected; folders without children
\* are exempt
C1_DescendantSelected ==
    last.op = "toggle" =>
        \A n \in SessionNodes :
            (Selected(n.path) /\ n.children # <<>>) =>
                \E q \in Below(n) : Selected(q)

\* a toggle has left A selected with no child of A selected, kept by grandchild C
C1_Witness ==
    /\ last.op = "toggle"
    /\ Selected(pA) /\ Selected(pC)
    /\ ~Selected(pB) /\ ~Selected(pE)

\* C3: a toggle to checked leaves the path and all its descendants selected; a
\* toggle to unchecked leaves the path and all its descendants unselected
C3_ToggleCascades ==
    last.op = "toggle" =>
        \A n \in SessionNodes :
            n.path = last.path =>
                \A q \in TreePaths(n) : Selected(q) <=> last.target

\* A, which has a grandchild, was checked while part of its subtree was selected
C3_Witness ==
    /\ last.op = "toggle" /\ last.target /\ last.path = pA
    /\ last.before
    /\ Selected(pA) /\ Selected(pB) /\ Selected(pC) /\ Selected(pE)

\* C10: after a successful load the selection is empty
C10_LoadResetsSelection ==
    (last.op = "load" /\ last.ok) => selected = <<>>

\* a tree was loaded while folders were selected
C10_Witness ==
    /\ last.op = "load" /\ last.ok
    /\ last.before
    /\ selected = <<>>

\* C11: a load asked for a path that is no folder reports an error and leaves
\* the tree, the selection and the saved last folder as they were
C11_FailedLoadChangesNothing ==
    [][(last'.op = "load" /\ last'.path \notin Dirs)
         => /\ ~last'.ok
            /\ tree' = tree
            /\ selected' = selected
            /\ last_folder' = last_folder]_vars

\* a load of a missing path or of a file was refused while a tree was loaded,
\* folders were selected and a last folder was saved
C11_Witness ==
    /\ last.op = "load" /\ ~last.ok
    /\ tree # <<>> /\ selected # <<>> /\ last_folder # <<>>

-----------------------------------------------------------------------------
(* Properties of the session's collections (Spec) *)

\* the three collections a fresh GPXProcessor computes for a folder list
Aggregation(folders) ==
    LET p == process_folders(NewProcessor, folders)
    IN <<p.tracks, p.routes, p.waypoints>>

SessionData == <<tracks_data, routes_data, waypoints_data>>

-----------------------------------------------------------------------------
(* Properties of process_folders (SpecAgg) *)

\* the number of records of file f in a collection
Count(records, f) == Cardinality({i \in 1..Len(records) : records[i].file_path = f})

\* the records file f holds, read off the parsed document
NTracks(f) ==
    LET g == Content(f)
    IN Cardinality({ij \in (1..Len(g.tracks)) \X (1..3) :
          /\ ij[2] <= Len(g.tracks[ij[1]].segments)
          /\ g.tracks[ij[1]].segments[ij[2]] # <<>>})

NRoutes(f) ==
    LET g == Content(f)
    IN Cardinality({i \in 1..Len(g.routes) : g.routes[i].points # <<>>})

NWaypoints(f) == Len(Content(f).waypoints)

\* f's direct parent folder is in the list handed to the last call
Qualifies(f) == \E i \in 1..Len(call.folders) : call.folders[i] = dirname(f)

AllRecords ==
    {proc.tracks[i] : i \in 1..Len(proc.tracks)}
    \cup {proc.routes[i] : i \in 1..Len(proc.routes)}
    \cup {proc.waypoints[i] : i \in 1..Len(proc.waypoints)}

\* a folder list without repetition, as a selection is
IsSelection(folders) ==
    \A i, j \in 1..Len(folders) : folders[i] = folders[j] => i = j

\* C2: for a selection, every file that parses and whose direct parent is selected contributes
\* its records exactly once; selecting A and A/B gives exactly 1 track record
\* and 1 waypoint record
C2_ExactlyOnce ==
    (call.made /\ IsSelection(call.folders)) =>
        /\ \A f \in GpxFiles \ broken :
              Qualifies(f) =>
                 /\ Count(proc.tracks, f) = NTracks(f)
                 /\ Count(proc.routes, f) = NRoutes(f)
                 /\ Count(proc.waypoints, f) = NWaypoints(f)
        /\ (call.folders = <<pA, pB>> /\ fb \notin broken) =>
              /\ Len(proc.tracks) = 1
              /\ Len(proc.waypoints) = 1

\* C5: every record comes from a file whose direct parent folder is in the
\* list; selecting only A gives exactly 1 track record, of gain 50, and no
\* waypoint record
C5_ExactContainment ==
    call.made =>
        /\ \A r \in AllRecords :
              /\ r.folder_path = SubSeq(r.file_path, 1, Len(r.file_path) - 1)
              /\ \E i \in 1..Len(call.folders) : call.folders[i] = r.folder_path
        /\ call.folders = <<pA>> =>
              /\ Len(proc.tracks) = 1
              /\ proc.tracks[1].elevation_gain = 50
              /\ Len(proc.waypoints) = 0

\* only A was selected: a.gpx gave its track, A/B/b.gpx (intact) gave nothing
C5_Witness ==
    /\ call.made /\ call.folders = <<pA>>
    /\ fb \notin broken
    /\ Len(proc.tracks) = 1 /\ proc.tracks[1].file_path = fa
    /\ Len(proc.waypoints) = 0

\* C6: after any sequence of calls the collections are those a fresh processor
\* computes for the folders of the last call
C6_FullReplacement ==
    call.made =>
        /\ <<proc.tracks, proc.routes, proc.waypoints>> = Aggregation(call.folders)
        /\ (call.folders = <<>> => AllRecords = {})

\* a call on a processor that held records, with folders that have records
C6_Witness ==
    /\ call.made /\ call.held
    /\ call.folders = <<pB>>
    /\ Len(proc.waypoints) = 1 /\ Len(proc.tracks) = 0

\* C7: no exception leaves process_folders, a file that fails to parse has no
\* record, and every other qualifying file has its records
C7_ParseFailureIsolated ==
    call.made =>
        /\ ~proc.raised
        /\ \A f \in broken :
              /\ Count(proc.tracks, f) = 0
              /\ Count(proc.routes, f) = 0
              /\ Count(proc.waypoints, f) = 0
        /\ \A f \in GpxFiles \ broken :
              Qualifies(f) =>
                 /\ Count(proc.tracks, f) >= NTracks(f)
                 /\ Count(proc.routes, f) >= NRoutes(f)
                 /\ Count(proc.waypoints, f) >= NWaypoints(f)

\* m.gpx failed between e.gpx and z.GPX, which both gave their waypoint
C7_Witness ==
    /\ call.made /\ call.folders = <<pE>>
    /\ fm \in broken
    /\ Count(proc.waypoints, fe) = 1 /\ Count(proc.waypoints, fz) = 1
    /\ Count(proc.tracks, fm) = 0 /\ Count(proc.routes, fm) = 0

-----------------------------------------------------------------------------
(* Properties of calculate_elevation_gain (SpecGain) *)

RECURSIVE SetSum(_, _)
\* the sum of f[i] over the indices i of S
SetSum(f, S) ==
    IF S = {} THEN 0
    ELSE LET i == CHOOSE k \in S : TRUE IN f[i] + SetSum(f, S \ {i})

\* the consecutive pairs with both elevations known and a rise
Rises(pts) ==
    {i \in 2..Len(pts) :
        /\ pts[i].elevation # <<>>
        /\ pts[i - 1].elevation # <<>>
        /\ pts[i].elevation[1] > pts[i - 1].elevation[1]}

SumOfRises(pts) ==
    SetSum([i \in 2..Len(pts) |-> pts[i].elevation[1] - pts[i - 1].elevation[1]],
           Rises(pts))

\* C8 as stated: the gain of the whole sequence is the sum of the gains of the
\* pieces of a contiguous partition
C8_AdditiveOverPartition ==
    gains.stage = "split" => gains.whole = gains.disjoint

\* C8 amended: the gain of the whole sequence is the sum of the gains of
\* contiguous pieces that share the point at each cut
C8_AdditiveOverSharedCuts ==
    gains.stage = "split" => gains.whole = gains.shared

\* a sequence whose rise crosses a cut: the disjoint pieces lose it
C8_Witness ==
    /\ gains.stage = "split"
    /\ gains.whole > 0
    /\ gains.disjoint < gains.whole
    /\ gains.shared = gains.whole

\* C9: the gain is the sum of the rises between consecutive points of known
\* elevation; 100, unknown, 150 gives 0; fewer than 2 points give 0; the gain
\* is never negative
C9_SumOfPositiveDeltas ==
    gains.stage # "new" =>
        /\ gains.whole = SumOfRises(points)
        /\ gains.whole >= 0
        /\ Len(points) < 2 => gains.whole = 0
        /\ points = <<Pt(100), PtNoEle, Pt(150)>> => gains.whole = 0

\* the gain of 100, unknown, 150 has been computed
C9_Witness ==
    /\ gains.stage = "whole"
    /\ points = <<Pt(100), PtNoEle, Pt(150)>>
    /\ gains.whole = 0

-----------------------------------------------------------------------------
(* Properties of the waypoint icon (SpecIcon) *)

\* the values of the three sources in order: the first icon-hint extension,
\* the first symbol extension, the symbol attribute (None where absent)
IconSources(waypoint) ==
    LET exts == waypoint.extensions
        first_text(Test(_)) ==
            LET S == {i \in 1..Len(exts) : Test(exts[i].tag)}
            IN IF S = {} THEN None ELSE exts[CHOOSE i \in S : \A j \in S : i <= j].text
    IN <<first_text(tag_has_icon), first_text(tag_has_sym), waypoint.symbol>>

NonEmpty(text) == text # None /\ strip(text) # ""

FirstNonEmpty(values) ==
    LET S == {i \in 1..Len(values) : NonEmpty(values[i])}
    IN IF S = {} THEN None
       ELSE strip(values[CHOOSE i \in S : \A j \in S : i <= j])

\* an empty string read as no icon, as the callers' `if icon` reads it
NoIconIfEmpty(icon) == IF icon = "" THEN None ELSE icon

\* C12: the icon of a waypoint is the first non-empty value among its icon-hint
\* extension, its symbol extension and its symbol attribute, and no icon when
\* all of them are absent or empty
C12_FirstNonEmptySource ==
    icon_call.stage = "done" =>
        NoIconIfEmpty(icon_call.icon) = FirstNonEmpty(IconSources(icon_call.waypoint))

-----------------------------------------------------------------------------
(* Properties of the glyph of a waypoint (SpecEmoji) *)

Present(s) == s # NoStr /\ s # <<>>

\* lower-cased, with `_`, `-` and `,` replaced by spaces
Normalized(s) ==
    [i \in 1..Len(s) |-> IF s[i] \in {"_", "-", ","} THEN " " ELSE str_lower(s)[i]]

\* the keyword of entry i is a substring of the text or contains it
EntryMatches(i, text) ==
    \/ str_contains(icon_mapping[i].key, text)
    \/ str_contains(text, icon_mapping[i].key)

\* entry i is the first entry in table order that matches the text
FirstMatch(i, text) ==
    EntryMatches(i, text) /\ \A j \in 1..(i - 1) : ~EntryMatches(j, text)

\* the icon followed by the name, an absent one taken as empty
IconThenName ==
    (IF emoji_call.icon = NoStr THEN <<>> ELSE emoji_call.icon)
        \o (IF emoji_call.waypoint_name = NoStr THEN <<>> ELSE emoji_call.waypoint_name)

\* C13 as stated: for an icon and a name, the glyph is that of the first entry in
\* table order that matches the normalized concatenation of icon and name
C13_FirstPassOnIconAndName ==
    (emoji_call.stage = "done" /\ Present(emoji_call.icon) /\ Present(emoji_call.waypoint_name))
        => \A i \in 1..Len(icon_mapping) :
               FirstMatch(i, Normalized(IconThenName)) => emoji_call.emoji = icon_mapping[i].emoji

\* C13: for a non-empty icon, the glyph is that of the first entry in table
\* order that matches the normalized icon alone; the name takes no part
C13_FirstPassOnIconAlone ==
    (emoji_call.stage = "done" /\ Present(emoji_call.icon))
        => \A i \in 1..Len(icon_mapping) :
               FirstMatch(i, Normalized(emoji_call.icon)) => emoji_call.emoji = icon_mapping[i].emoji

\* icon museum with name restaurant has been resolved to the museum glyph
C13_Witness ==
    /\ emoji_call.stage = "done"
    /\ emoji_call.icon = <<"m", "u", "s", "e", "u", "m">>
    /\ emoji_call.waypoint_name = <<"r", "e", "s", "t", "a", "u", "r", "a", "n", "t">>
    /\ emoji_call.emoji = "U+1F3DB.U+FE0F"

\* C14: when the icon alone matches a table entry the glyph is the one returned
\* for the same icon with an empty name, whatever the name; icon restaurant with
\* an empty name gives the food glyph
C14_IconDecidesBeforeName ==
    emoji_call.stage = "done" =>
        /\ (Present(emoji_call.icon)
              /\ \E i \in 1..Len(icon_mapping) : EntryMatches(i, Normalized(emoji_call.icon)))
             => emoji_call.emoji = emoji_call.emoji_noname
        /\ (emoji_call.icon = <<"r", "e", "s", "t", "a", "u", "r", "a", "n", "t">> /\ emoji_call.waypoint_name = <<>>)
             => emoji_call.emoji = "U+1F37D.U+FE0F"

\* icon restaurant has been resolved to the food glyph although its name
\* holds the keyword bar
C14_Witness ==
    /\ emoji_call.stage = "done"
    /\ emoji_call.icon = <<"r", "e", "s", "t", "a", "u", "r", "a", "n", "t">>
    /\ emoji_call.waypoint_name = <<"B", "a", "r", "-", "t", "a", "b", "a", "c">>
    /\ emoji_call.emoji = "U+1F37D.U+FE0F"
    /\ name_pass(emoji_call.waypoint_name) # 0

-----------------------------------------------------------------------------
(* Properties of the colors (SpecColor) *)

\* the distinct folders, and the distinct files, of the records of a processor
FolderIdentities(st) ==
    {r.folder_path : r \in {st.tracks[k] : k \in 1..Len(st.tracks)}
                         \cup {st.routes[k] : k \in 1..Len(st.routes)}
                         \cup {st.waypoints[k] : k \in 1..Len(st.waypoints)}}

FileIdentities(st) ==
    {r.file_path : r \in {st.tracks[k] : k \in 1..Len(st.tracks)}
                       \cup {st.routes[k] : k \in 1..Len(st.routes)}
                       \cup {st.waypoints[k] : k \in 1..Len(st.waypoints)}}

\* the number of identities of S that come before x in lexicographic order
SortedPosition(x, S) == Cardinality({y \in S : str_lt(y, x)})

\* the mapping gives each identity of S the palette color of its sorted position
ColorsByPosition(mapping, S, palette) ==
    /\ DOMAIN mapping = S
    /\ \A x \in S : mapping[x] = palette[(SortedPosition(x, S) % Len(palette)) + 1]

\* C15: each distinct folder, and each distinct file, gets the palette color of
\* its position among the sorted distinct identities, modulo the palette length;
\* two collections with the same identities, in any order and with any
\* duplicates, get the same mapping
C15_ColorsBySortedPosition ==
    /\ color_call.stage = "ready" /\ color_call.folders_done
         => /\ ColorsByPosition(color_call.folder_colors[1],
                                FolderIdentities(color_call.first), folder_palette)
            /\ color_call.folder_colors[1] = color_call.folder_colors[2]
    /\ color_call.stage = "ready" /\ color_call.files_done
         => /\ ColorsByPosition(color_call.gpx_colors[1],
                                FileIdentities(color_call.first), gpx_palette)
            /\ color_call.gpx_colors[1] = color_call.gpx_colors[2]

\* both mappings have been computed for more folders than folder colors and
\* more files than file colors, held in two different arrangements
C15_Witness ==
    /\ color_call.stage = "ready"
    /\ color_call.folders_done /\ color_call.files_done
    /\ color_call.first # color_call.second
    /\ FolderIdentities(color_call.first) = FolderIdentities(color_call.second)
    /\ Cardinality(FolderIdentities(color_call.first)) > Len(folder_palette)
    /\ Cardinality(FileIdentities(color_call.first)) > Len(gpx_palette)

-----------------------------------------------------------------------------
(* Properties of the elevation profile (SpecProfile) *)

\* the number of track points of a document
NTrackPoints(gpx_file) ==
    LET segs == Flatten(gpx_file.tracks)
    IN Len(Flatten(segs))

\* C16: for every file that parses, the distances and the elevations of its
\* profile have the same length (stated here for the files that hold a track
\* point; the files without one are the case of C17)
C16_SameLength ==
    (profile_call.stage = "done" /\ profile_call.gpx_file.ok
        /\ NTrackPoints(profile_call.gpx_file) > 0)
        => Len(profile_call.profile.distances) = Len(profile_call.profile.elevations)

\* C17: the profile is two empty arrays when the file fails to parse and when it
\* parses but holds no track point
C17_EmptyArraysWhenNoData ==
    (profile_call.stage = "done"
        /\ (~profile_call.gpx_file.ok \/ NTrackPoints(profile_call.gpx_file) = 0))
        => /\ profile_call.profile.distances = <<>>
           /\ profile_call.profile.elevations = <<>>

-----------------------------------------------------------------------------
(* Properties of the map's center and zoom (SpecMap) *)

\* a search location was given and the geocoder answered with coordinates
Geocoded ==
    /\ map_call.search_location \notin {None, ""}
    /\ ~map_call.reply.raises
    /\ map_call.reply.status_code = 200
    /\ map_call.reply.data # <<>>
    /\ map_call.reply.data[1].lat # <<>>

\* first point of the first track, else of the first route, else the first
\* waypoint, else (0, 0)
FallbackCenter ==
    LET st == map_call.processor
    IN IF st.tracks # <<>> THEN st.tracks[1].points[1]
       ELSE IF st.routes # <<>> THEN st.routes[1].points[1]
       ELSE IF st.waypoints # <<>> THEN st.waypoints[1].waypoint
       ELSE LatLon(0, 0)

\* C18: with a search location that the geocoder resolves, the map is centered
\* on the geocoded coordinates at zoom 8; in every other case, a geocoder error
\* or timeout included, it is centered on the first point of the first track,
\* else of the first route, else on the first waypoint, else on (0, 0), at zoom 6
C18_CenterAndZoom ==
    map_call.stage = "done" =>
        IF Geocoded
        THEN /\ map_call.map.location = LatLon(map_call.reply.data[1].lat[1],
                                               map_call.reply.data[1].lon[1])
             /\ map_call.map.zoom_start = 8
        ELSE /\ map_call.map.location = FallbackCenter
             /\ map_call.map.zoom_start = 6

\* a map was built for a search whose geocoding timed out, with waypoints and
\* routes but no track: it is centered on the first route's first point
C18_Witness ==
    /\ map_call.stage = "done"
    /\ map_call.search_location = "Annecy"
    /\ map_call.reply.raises
    /\ map_call.processor.tracks = <<>>
    /\ map_call.processor.routes # <<>>
    /\ map_call.processor.waypoints # <<>>
    /\ map_call.map = [location |-> LatLon(44, 1), zoom_start |-> 6]

-----------------------------------------------------------------------------
(* Properties of the command line run (SpecCli) *)

\* the nothing-to-show status: the warning, return code 1, nothing written
NothingToShow ==
    /\ cli.run.code = 1
    /\ cli.run.stdout = <<"[WARN] Aucun fichier GPX">>
    /\ ~cli.run.map_saved
    /\ cli.run.csv = <<>>

\* GPX files of the disk lying in or below one of the folders given
RecognizedFiles ==
    {f \in GpxFiles : \E i \in 1..Len(cli.folders) : IsPrefix(cli.folders[i], f)}

\* GPX files of the disk lying directly in one of the folders given
QualifyingFiles ==
    {f \in GpxFiles : \E i \in 1..Len(cli.folders) : cli.folders[i] = dirname(f)}

\* C19: when the folders given hold no GPX file, the three collections are
\* empty and run_cli reports nothing-to-show (warning, code 1) without raising
\* and without writing a map or a CSV
C19_EmptyInputNothingToShow ==
    (cli.stage = "done" /\ RecognizedFiles = {})
        => /\ cli.run.processor.tracks = <<>>
           /\ cli.run.processor.routes = <<>>
           /\ cli.run.processor.waypoints = <<>>
           /\ ~cli.run.processor.raised
           /\ NothingToShow

\* run_cli has run on an empty folder and a missing one
C19_Witness ==
    /\ cli.stage = "done"
    /\ cli.folders = <<pC, pX>>
    /\ cli.run.code = 1

\* C20: run_cli reports nothing-to-show when and only when no qualifying file
\* was found; a run whose qualifying files all failed to parse is not reported so
C20_NothingToShowIffNoQualifyingFile ==
    cli.stage = "done" => (cli.run.code = 1 <=> QualifyingFiles = {})

-----------------------------------------------------------------------------
(* Properties of the name fallback (SpecEmoji) *)

\* the words of the name, lower-cased and stripped of non-alphanumeric characters
CleanedWords(waypoint_name) ==
    IF ~Present(waypoint_name) THEN {}
    ELSE LET words == str_split(str_lower(waypoint_name))
         IN {SelectSeq(words[k], isalnum) : k \in 1..Len(words)}

\* the keyword of entry i equals or is a substring of a cleaned word of the name
NameMatches(i, waypoint_name) ==
    \E word \in CleanedWords(waypoint_name) : str_contains(icon_mapping[i].key, word)

\* the icon is absent or matches no entry
FirstPassFindsNothing ==
    Present(emoji_call.icon)
        => \A i \in 1..Len(icon_mapping) : ~EntryMatches(i, Normalized(emoji_call.icon))

\* C21: when the first pass finds nothing, the glyph is that of the first entry
\* in table order that matches any cleaned word of the name, whatever the
\* order of the words, and the default glyph when no entry matches
C21_NameFallbackTableOrdered ==
    (emoji_call.stage = "done" /\ FirstPassFindsNothing)
        => LET M == {i \in 1..Len(icon_mapping) : NameMatches(i, emoji_call.waypoint_name)}
           IN IF M = {} THEN emoji_call.emoji = DefaultEmoji
              ELSE emoji_call.emoji = icon_mapping[CHOOSE i \in M : \A j \in M : i <= j].emoji

-----------------------------------------------------------------------------
(* Further properties of the selection (Spec) *)

\* the paths of the subtree whose root has the given path
SubtreePaths(path) == UNION {TreePaths(n) : n \in {m \in SessionNodes : m.path = path}}

\* C22: when a selected folder has at least two selected children and one of
\* them is unchecked, the toggle removes that child and its descendants and
\* nothing else; and whenever a toggle removes a folder that has children, none
\* of its children is selected afterwards
C22_PartialSelectionPersists ==
    [][last'.op = "toggle" =>
         \A n \in SessionNodes :
            /\ (/\ ~last'.target
                /\ In(n.path, selected)
                /\ \E i, j \in 1..Len(n.children) :
                      /\ i # j
                      /\ n.children[i].path = last'.path
                      /\ In(n.children[i].path, selected)
                      /\ In(n.children[j].path, selected))
                 => \A q \in TreePaths(tree[1]) :
                       In(q, selected') <=> (In(q, selected) /\ q \notin SubtreePaths(last'.path))
            /\ (n.children # <<>> /\ In(n.path, selected) /\ ~In(n.path, selected'))
                 => \A i \in 1..Len(n.children) : ~In(n.children[i].path, selected')]_vars

\* B was unchecked under A while E was selected: A and E are still selected
C22_Witness ==
    /\ last.op = "toggle" /\ ~last.target /\ last.path = pB
    /\ Selected(pA) /\ Selected(pE)
    /\ ~Selected(pB) /\ ~Selected(pC)

\* C23: the selection holds no path twice and only paths of nodes of the
\* current tree
C23_SelectionWellFormed ==
    /\ \A i, j \in 1..Len(selected) : selected[i] = selected[j] => i = j
    /\ \A i \in 1..Len(selected) : tree # <<>> /\ selected[i] \in TreePaths(tree[1])

\* A was checked after B: the list holds B and C from before, then A and E
C23_Witness == selected = <<pB, pC, pA, pE>>

-----------------------------------------------------------------------------
(* Properties of a render pass (SpecRender) *)

\* the paths a list holds
PathsOf(list) == {list[i] : i \in 1..Len(list)}

\* C24: for one tree and one value per checkbox, the pass gives the same
\* selection from any two lists; in it a folder is selected exactly when its
\* box is checked and it has no children or has a descendant selected; the pass
\* run again with the same values changes nothing
C24_PassDeterminedByCheckboxes ==
    /\ render_call.stage \in {"done", "again"}
         => /\ PathsOf(render_call.results[1]) = PathsOf(render_call.results[2])
            /\ \A n \in TreeNodes(render_call.tree) :
                  In(n.path, render_call.results[1])
                     <=> /\ render_call.values[n.path]
                         /\ \/ n.children = <<>>
                            \/ \E q \in Below(n) : In(q, render_call.results[1])
    /\ render_call.stage = "again" => render_call.again = render_call.results[1]

\* the pass has run on the tree of R/A from two different lists, with the boxes
\* of A and C checked and those of B and E unchecked, and then once more
C24_Witness ==
    /\ render_call.stage = "again"
    /\ render_call.tree.path = pA
    /\ PathsOf(render_call.first) = {pB, pE}
    /\ PathsOf(render_call.second) = {pA, pB, pC}
    /\ PathsOf(render_call.results[1]) = {pA, pC}

-----------------------------------------------------------------------------
(* Properties of the length of a track record (SpecAgg) *)

\* the 3D length of a point sequence: the distances between consecutive points
LengthOf(pts) ==
    LET F[i \in 0..Len(pts)] ==
            IF i <= 1 THEN 0 ELSE F[i - 1] + distance_3d(pts[i - 1], pts[i])
    IN F[Len(pts)]

\* C25: the length of each TrackRecord is the 3D length of its own points, so
\* that the records of a track with several segments sum to the track's length
C25_LengthOfOwnPoints ==
    call.made => \A i \in 1..Len(proc.tracks) :
                    proc.tracks[i].length = LengthOf(proc.tracks[i].points)

-----------------------------------------------------------------------------
(* Properties of the distances of the profile (SpecProfile) *)

\* the track points of a document in order, each marked when it opens a segment
PointsInOrder(gpx_file) ==
    LET segs == Flatten(gpx_file.tracks)
    IN Flatten([k \in 1..Len(segs) |->
                   [i \in 1..Len(segs[k]) |-> [point |-> segs[k][i], opens |-> i = 1]]])

\* the planar distance covered up to the i-th point, along the segments
CumulativeKm(gpx_file, i) ==
    LET pts == PointsInOrder(gpx_file)
        F[k \in 0..i] ==
            IF k = 0 THEN 0
            ELSE IF pts[k].opens THEN F[k - 1]
            ELSE F[k - 1] + distance_km(pts[k - 1].point, pts[k].point)
    IN F[i]

\* C26: when both arrays are non-empty, the distances start at 0, never
\* decrease, and the i-th distance is the cumulative planar distance up to the
\* point whose elevation is the i-th elevation
C26_DistancesAlignedWithElevations ==
    (/\ profile_call.stage = "done"
     /\ profile_call.profile.distances # <<>>
     /\ profile_call.profile.elevations # <<>>)
        => LET distances == profile_call.profile.distances
               elevations == profile_call.profile.elevations
           IN /\ distances[1] = 0
              /\ \A i \in 2..Len(distances) : distances[i - 1] <= distances[i]
              /\ \A i \in 1..Len(elevations) :
                    /\ i <= Len(distances)
                    /\ distances[i] = CumulativeKm(profile_call.gpx_file, i)

====
